---- MODULE Spec2Model ----
(***************************************************************************)
(* The iterator and generator tasks of homeworks/iterators/iterator.py:    *)
(* ChainSequences / chain_sequences, ZipSequences / zip_sequences,         *)
(* generate_primes, generate_combinations, FlattenIterator /               *)
(* flatten_iterator_generator.                                             *)
(*                                                                         *)
(* Every object is a record whose fields carry the names of the Python     *)
(* attributes (or of the locals of a suspended generator frame).  Indices  *)
(* are kept 0-based as in the source; s[i + 1] reads the Python s[i].      *)
(* One action is one call of __next__ (or of next() on a generator): it    *)
(* runs the code up to the return, the yield or the StopIteration.         *)
(*                                                                         *)
(* None of the adapters inspects, compares or changes an element (the      *)
(* only test made on one is isinstance(element, list)), so an element is   *)
(* modelled by an opaque token that names where it sits in the input.      *)
(* An input list is never written by any of the code, so a reference to a  *)
(* list is modelled by the list's value.                                   *)
(*                                                                         *)
(* The TransactionalObjectSaver of homeworks/context manager/task.py: the  *)
(* body of its with statement does write lists in place, so there an       *)
(* attribute holds a list by reference into a heap.  One action is one     *)
(* statement of the with statement: __enter__, a statement of the body, or *)
(* the end of the body together with the __exit__ call it triggers.        *)
(*                                                                         *)
(* The RationalFraction class of homeworks/oop 1,2,3: two objects in a     *)
(* heap, and one action per arithmetic method, applied to the first object *)
(* with either object as the other operand.                                *)
(*                                                                         *)
(* factorial_sum of homeworks/basics 1,2,3: the memo dictionary that all   *)
(* calls share, and one action per call made from outside.                 *)
(***************************************************************************)
EXTENDS Integers, Sequences, FiniteSets, TLC

\* ---------------------------------------------------------------- bounds
\* Most sequences handed to chain / zip.
MaxSeqs == 3
\* Longest input sequence handed to chain / zip.
MaxLen == 3
\* Longest list of a nested input.
MaxItems == 2
\* Requests a consumer still makes after an adapter has signalled exhaustion.
MaxExtraCalls == 2
\* Largest argument n of generate_primes.
MaxN == 30
\* Longest sequence handed to generate_combinations.
MaxCombLen == 4
\* Most lists in a nested input, the outer one included.
MaxLists == 3
\* Most statements the body of a with statement runs before it ends or raises.
MaxBodySteps == 2
\* Largest magnitude of a numerator or denominator handed to RationalFraction.
MaxFraction == 2
\* Largest argument n of factorial_sum.
MaxFactorial == 4
\* Most calls of factorial_sum made from outside.
MaxCalls == 3

VARIABLES
    task,          \* which task's objects the consumer has constructed
    chain,         \* the ChainSequences object
    chain_gen,     \* the suspended chain_sequences generator
    chain_log,     \* what the consumer got from the ChainSequences object
    chain_gen_log, \* what the consumer got from the chain_sequences generator
    zip,           \* the ZipSequences object
    zip_gen,       \* the suspended zip_sequences generator
    zip_log,
    zip_gen_log,
    primes_gen,    \* the suspended generate_primes generator
    primes_log,
    comb_gen,      \* the suspended generate_combinations generator
    comb_log,
    comb_run,      \* a generate_combinations generator followed statement by statement
    comb_run_log,
    flat,          \* the FlattenIterator object
    flat_gen,      \* the suspended flatten_iterator_generator generator
    flat_log,
    flat_gen_log,
    flat_loop,     \* a FlattenIterator object followed pass by pass
    flat_loop_log,
    obj,           \* the attributes of the object handed to TransactionalObjectSaver
    heap,          \* the list objects, by reference
    saver,         \* the TransactionalObjectSaver object
    suppressor,    \* the ErrorSuppressor object
    mocker,        \* the MockManager object
    with_pc,       \* where the with statement stands
    with_log,      \* what the code around the with statement saw
    fractions,     \* the two RationalFraction objects, by reference
    fractions_log, \* the last arithmetic method called on them
    memo,          \* the default argument memo={} of factorial_sum
    memo_log       \* the last call of factorial_sum made from outside

vars == <<task, chain, chain_gen, chain_log, chain_gen_log,
          zip, zip_gen, zip_log, zip_gen_log,
          primes_gen, primes_log, comb_gen, comb_log, comb_run, comb_run_log,
          flat, flat_gen, flat_log, flat_gen_log, flat_loop, flat_loop_log,
          obj, heap, saver, suppressor, mocker, with_pc, with_log,
          fractions, fractions_log, memo, memo_log>>

chainVars == <<chain, chain_gen, chain_log, chain_gen_log>>
zipVars == <<zip, zip_gen, zip_log, zip_gen_log>>
primesVars == <<primes_gen, primes_log>>
combVars == <<comb_gen, comb_log, comb_run, comb_run_log>>
flatVars == <<flat, flat_gen, flat_log, flat_gen_log, flat_loop, flat_loop_log>>
withVars == <<obj, heap, saver, suppressor, mocker, with_pc, with_log>>
fractionVars == <<fractions, fractions_log>>
factorialVars == <<memo, memo_log>>

\* ------------------------------------------------------- shared primitives
\* The consumer's record of one cursor: the values returned so far, in order,
\* and the number of requests answered by StopIteration.
NewLog == [out |-> <<>>, stops |-> 0]

LogValue(log, v) == [log EXCEPT !.out = Append(@, v)]

LogStop(log) == [log EXCEPT !.stops = @ + 1]

\* Python's iter(list): the list and the index of the element next() reads.
ListIter(list) == [list |-> list, pos |-> 0]

\* next(it) returns a value (otherwise it raises StopIteration).
ListIterHasNext(it) == it.pos < Len(it.list)

ListIterValue(it) == it.list[it.pos + 1]

ListIterAdvance(it) == [it EXCEPT !.pos = @ + 1]

\* The j-th element of the i-th input sequence.
Elem(i, j) == <<i, j>>

\* The input sequence number i with len elements.
InputSeq(i, len) == [j \in 1..len |-> Elem(i, j - 1)]

\* Every argument tuple *sequences within the bounds.
InputSequences ==
    UNION {{[i \in 1..n |-> InputSeq(i - 1, lens[i])] :
                lens \in [1..n -> 0..MaxLen]} : n \in 0..MaxSeqs}

\* --------------------------------------------------- TASK 1: ChainSequences
ChainSequencesInit(sequences) ==
    [sequences |-> sequences,
     current_sequence_index |-> 0,
     current_iterator |-> IF Len(sequences) > 0 THEN ListIter(sequences[1])
                          ELSE ListIter(<<>>)]

\* ChainSequencesNext with `if` for `while`: after moving to the next
\* sequence it asks that sequence once and gives up when it is empty.
ChainSequencesNext_NoLoop(self) ==
    IF ListIterHasNext(self.current_iterator)
    THEN [self |-> [self EXCEPT !.current_iterator = ListIterAdvance(@)],
          raised |-> FALSE,
          value |-> ListIterValue(self.current_iterator)]
    ELSE LET moved == [self EXCEPT !.current_sequence_index = @ + 1]
         IN  IF moved.current_sequence_index >= Len(moved.sequences)
             THEN [self |-> moved, raised |-> TRUE, value |-> <<>>]
             ELSE LET it == ListIter(moved.sequences[moved.current_sequence_index + 1])
                  IN  IF ListIterHasNext(it)
                      THEN [self |-> [moved EXCEPT !.current_iterator =
                                                       ListIterAdvance(it)],
                            raised |-> FALSE, value |-> ListIterValue(it)]
                      ELSE [self |-> [moved EXCEPT !.current_iterator = it],
                            raised |-> TRUE, value |-> <<>>]

\* ChainSequencesNext that rewinds to the first sequence when it runs out.
RECURSIVE ChainSequencesNext_Rewind(_)
ChainSequencesNext_Rewind(self) ==
    IF ListIterHasNext(self.current_iterator)
    THEN [self |-> [self EXCEPT !.current_iterator = ListIterAdvance(@)],
          raised |-> FALSE,
          value |-> ListIterValue(self.current_iterator)]
    ELSE LET moved == [self EXCEPT !.current_sequence_index = @ + 1]
         IN  IF moved.current_sequence_index >= Len(moved.sequences)
             THEN [self |-> [moved EXCEPT
                               !.current_sequence_index = 0,
                               !.current_iterator =
                                   IF Len(moved.sequences) > 0
                                   THEN ListIter(moved.sequences[1])
                                   ELSE ListIter(<<>>)],
                   raised |-> TRUE, value |-> <<>>]
             ELSE ChainSequencesNext_Rewind(
                      [moved EXCEPT !.current_iterator =
                          ListIter(moved.sequences[moved.current_sequence_index + 1])])

\* ChainSequencesNext that opens the iterator over the next sequence in the
\* call that returns the last element of the current one.
RECURSIVE ChainSequencesNext_EagerOpen(_)
ChainSequencesNext_EagerOpen(self) ==
    IF ListIterHasNext(self.current_iterator)
    THEN LET advanced == ListIterAdvance(self.current_iterator)
             following == self.current_sequence_index + 1
         IN  [self |-> IF ~ListIterHasNext(advanced)
                          /\ following < Len(self.sequences)
                       THEN [self EXCEPT
                               !.current_sequence_index = following,
                               !.current_iterator =
                                   ListIter(self.sequences[following + 1])]
                       ELSE [self EXCEPT !.current_iterator = advanced],
              raised |-> FALSE,
              value |-> ListIterValue(self.current_iterator)]
    ELSE LET moved == [self EXCEPT !.current_sequence_index = @ + 1]
         IN  IF moved.current_sequence_index >= Len(moved.sequences)
             THEN [self |-> moved, raised |-> TRUE, value |-> <<>>]
             ELSE ChainSequencesNext_EagerOpen(
                      [moved EXCEPT !.current_iterator =
                          ListIter(moved.sequences[moved.current_sequence_index + 1])])

\* ChainSequencesNext that raises at once, and changes nothing, when
\* current_sequence_index has already reached the number of sequences.
RECURSIVE ChainSequencesNext_Saturates(_)
ChainSequencesNext_Saturates(self) ==
    IF self.current_sequence_index >= Len(self.sequences)
       /\ ~ListIterHasNext(self.current_iterator)
    THEN [self |-> self, raised |-> TRUE, value |-> <<>>]
    ELSE IF ListIterHasNext(self.current_iterator)
    THEN [self |-> [self EXCEPT !.current_iterator = ListIterAdvance(@)],
          raised |-> FALSE,
          value |-> ListIterValue(self.current_iterator)]
    ELSE LET moved == [self EXCEPT !.current_sequence_index = @ + 1]
         IN  IF moved.current_sequence_index >= Len(moved.sequences)
             THEN [self |-> moved, raised |-> TRUE, value |-> <<>>]
             ELSE ChainSequencesNext_Saturates(
                      [moved EXCEPT !.current_iterator =
                          ListIter(moved.sequences[moved.current_sequence_index + 1])])

\* The while True loop of __next__: the object after the call, whether the
\* call raised StopIteration, and the value it returned otherwise.
RECURSIVE ChainSequencesNext(_)
ChainSequencesNext(self) ==
    IF ListIterHasNext(self.current_iterator)
    THEN [self |-> [self EXCEPT !.current_iterator = ListIterAdvance(@)],
          raised |-> FALSE,
          value |-> ListIterValue(self.current_iterator)]
    ELSE LET moved == [self EXCEPT !.current_sequence_index = @ + 1]
         IN  IF moved.current_sequence_index >= Len(moved.sequences)
             THEN [self |-> moved, raised |-> TRUE, value |-> <<>>]
             ELSE ChainSequencesNext(
                      [moved EXCEPT !.current_iterator =
                          ListIter(moved.sequences[moved.current_sequence_index + 1])])

\* chain_sequences(*sequences), not yet started: seq_pos is the position of
\* the for loop over sequences, sub the iterator `yield from seq` delegates to.
ChainGenInit(sequences) ==
    [sequences |-> sequences, seq_pos |-> 0, sub |-> ListIter(<<>>),
     pc |-> "created"]

\* ChainGenLoop that takes an empty sequence for the end of the input and
\* returns.
RECURSIVE ChainGenLoop_StopsAtEmpty(_)
ChainGenLoop_StopsAtEmpty(g) ==
    IF g.seq_pos >= Len(g.sequences)
    THEN [gen |-> [g EXCEPT !.pc = "done"], raised |-> TRUE, value |-> <<>>]
    ELSE LET sub == ListIter(g.sequences[g.seq_pos + 1])
             g2 == [g EXCEPT !.seq_pos = @ + 1]
         IN  IF ListIterHasNext(sub)
             THEN [gen |-> [g2 EXCEPT !.sub = ListIterAdvance(sub),
                                      !.pc = "suspended"],
                   raised |-> FALSE, value |-> ListIterValue(sub)]
             ELSE [gen |-> [g2 EXCEPT !.pc = "done"], raised |-> TRUE,
                   value |-> <<>>]

\* The for loop of chain_sequences from its loop head.
RECURSIVE ChainGenLoop(_)
ChainGenLoop(g) ==
    IF g.seq_pos >= Len(g.sequences)
    THEN [gen |-> [g EXCEPT !.pc = "done"], raised |-> TRUE, value |-> <<>>]
    ELSE LET sub == ListIter(g.sequences[g.seq_pos + 1])
             g2 == [g EXCEPT !.seq_pos = @ + 1]
         IN  IF ListIterHasNext(sub)
             THEN [gen |-> [g2 EXCEPT !.sub = ListIterAdvance(sub),
                                      !.pc = "suspended"],
                   raised |-> FALSE, value |-> ListIterValue(sub)]
             ELSE ChainGenLoop(g2)

\* next() on the chain_sequences generator.
ChainGenResume(g) ==
    IF g.pc = "done"
    THEN [gen |-> g, raised |-> TRUE, value |-> <<>>]
    ELSE IF g.pc = "suspended" /\ ListIterHasNext(g.sub)
    THEN [gen |-> [g EXCEPT !.sub = ListIterAdvance(@)],
          raised |-> FALSE, value |-> ListIterValue(g.sub)]
    ELSE ChainGenLoop(g)

\* One request to a cursor, as the consumer records it.
Record(log, r) == IF r.raised THEN LogStop(log) ELSE LogValue(log, r.value)

ChainNext ==
    /\ task = "chain"
    /\ chain_log.stops <= MaxExtraCalls
    /\ LET r == ChainSequencesNext(chain)
       IN  /\ chain' = r.self
           /\ chain_log' = Record(chain_log, r)
    /\ UNCHANGED <<task, chain_gen, chain_gen_log, zipVars, primesVars, combVars, flatVars, withVars, fractionVars, factorialVars>>

ChainGenNext ==
    /\ task = "chain"
    /\ chain_gen_log.stops <= MaxExtraCalls
    /\ LET r == ChainGenResume(chain_gen)
       IN  /\ chain_gen' = r.gen
           /\ chain_gen_log' = Record(chain_gen_log, r)
    /\ UNCHANGED <<task, chain, chain_log, zipVars, primesVars, combVars, flatVars, withVars, fractionVars, factorialVars>>

\* ----------------------------------------------------- TASK 2: ZipSequences
ZipSequencesInit(sequences) ==
    [sequences |-> sequences,
     iterators |-> [i \in 1..Len(sequences) |-> ListIter(sequences[i])],
     index |-> 0]

\* ZipCollect that leaves an exhausted iterator out of the tuple and goes on.
RECURSIVE ZipCollect_SkipExhausted(_, _, _)
ZipCollect_SkipExhausted(iterators, i, result) ==
    IF i > Len(iterators)
    THEN [iterators |-> iterators, raised |-> result = <<>>, value |-> result]
    ELSE IF ListIterHasNext(iterators[i])
    THEN ZipCollect_SkipExhausted([iterators EXCEPT ![i] = ListIterAdvance(@)],
                                  i + 1,
                                  Append(result, ListIterValue(iterators[i])))
    ELSE ZipCollect_SkipExhausted(iterators, i + 1, result)

\* The for loop `for it in iterators: result.append(next(it))` from the i-th
\* iterator on: the iterators after it, the result list, and whether a next(it)
\* raised StopIteration (which ends the loop at once).
RECURSIVE ZipCollect(_, _, _)
ZipCollect(iterators, i, result) ==
    IF i > Len(iterators)
    THEN [iterators |-> iterators, raised |-> FALSE, value |-> result]
    ELSE IF ListIterHasNext(iterators[i])
    THEN ZipCollect([iterators EXCEPT ![i] = ListIterAdvance(@)], i + 1,
                    Append(result, ListIterValue(iterators[i])))
    ELSE [iterators |-> iterators, raised |-> TRUE, value |-> <<>>]

\* ZipSequencesNext whose except clause builds fresh iterators before it
\* raises.
ZipSequencesNext_Restart(self) ==
    LET c == ZipCollect(self.iterators, 1, <<>>)
    IN  [self |-> [self EXCEPT !.iterators =
                      IF c.raised
                      THEN [i \in 1..Len(self.sequences) |->
                               ListIter(self.sequences[i])]
                      ELSE c.iterators],
         raised |-> c.raised, value |-> c.value]

\* ZipSequencesNext that puts the iterators back where they stood when a
\* next(it) raises.
ZipSequencesNext_NoDrop(self) ==
    LET c == ZipCollect(self.iterators, 1, <<>>)
    IN  [self |-> IF c.raised THEN self
                  ELSE [self EXCEPT !.iterators = c.iterators],
         raised |-> c.raised, value |-> c.value]

\* ZipSequences.__next__.
ZipSequencesNext(self) ==
    LET c == ZipCollect(self.iterators, 1, <<>>)
    IN  [self |-> [self EXCEPT !.iterators = c.iterators],
         raised |-> c.raised, value |-> c.value]

ZipGenInit(sequences) ==
    [iterators |-> [i \in 1..Len(sequences) |-> ListIter(sequences[i])],
     pc |-> "created"]

\* ZipGenResume with the iterators made inside the while loop: every round
\* starts from the first elements again.
ZipGenResume_FreshIterators(g) ==
    IF g.pc = "done"
    THEN [gen |-> g, raised |-> TRUE, value |-> <<>>]
    ELSE LET fresh == [i \in 1..Len(g.iterators) |->
                          ListIter(g.iterators[i].list)]
             c == ZipCollect(fresh, 1, <<>>)
         IN  [gen |-> [iterators |-> c.iterators,
                       pc |-> IF c.raised THEN "done" ELSE "suspended"],
              raised |-> c.raised, value |-> c.value]

\* next() on the zip_sequences generator: one round of its while True loop,
\* ended by the yield, or by the return of the except clause.
ZipGenResume(g) ==
    IF g.pc = "done"
    THEN [gen |-> g, raised |-> TRUE, value |-> <<>>]
    ELSE LET c == ZipCollect(g.iterators, 1, <<>>)
         IN  [gen |-> [iterators |-> c.iterators,
                       pc |-> IF c.raised THEN "done" ELSE "suspended"],
              raised |-> c.raised, value |-> c.value]

\* With no sequences at all a request never ends in StopIteration, so the
\* consumer's requests are capped by the number of tuples as well.
ZipNext ==
    /\ task = "zip"
    /\ zip_log.stops <= MaxExtraCalls
    /\ Len(zip_log.out) <= MaxLen
    /\ LET r == ZipSequencesNext(zip)
       IN  /\ zip' = r.self
           /\ zip_log' = Record(zip_log, r)
    /\ UNCHANGED <<task, zip_gen, zip_gen_log, chainVars, primesVars, combVars, flatVars, withVars, fractionVars, factorialVars>>

ZipGenNext ==
    /\ task = "zip"
    /\ zip_gen_log.stops <= MaxExtraCalls
    /\ Len(zip_gen_log.out) <= MaxLen
    /\ LET r == ZipGenResume(zip_gen)
       IN  /\ zip_gen' = r.gen
           /\ zip_gen_log' = Record(zip_gen_log, r)
    /\ UNCHANGED <<task, zip, zip_log, chainVars, primesVars, combVars, flatVars, withVars, fractionVars, factorialVars>>

\* -------------------------------------------------- TASK 3: generate_primes
\* generate_primes(n), not yet started.  pc names the yield the generator is
\* suspended at; is_prime (empty until the sieve is built) and i are its locals.
PrimesGenInit(n) == [n |-> n, pc |-> "created", is_prime |-> <<>>, i |-> 0]

\* int(math.sqrt(n)).
IntSqrt(n) == CHOOSE r \in 0..n : r * r <= n /\ (r + 1) * (r + 1) > n

\* The end of range(2, int(math.sqrt(n))): the + 1 of the source left out.
SieveStop_NoPlusOne(n) == IntSqrt(n)

\* The end of range(2, int(math.sqrt(n)) + 1).
SieveStop(n) == IntSqrt(n) + 1

\* for j in range(i*i, n, i): is_prime[j] = False, from j on.
RECURSIVE Strike(_, _, _, _)
Strike(is_prime, j, n, i) ==
    IF j >= n THEN is_prime
    ELSE Strike([is_prime EXCEPT ![j + 1] = FALSE], j + i, n, i)

\* for i in range(2, stop): if is_prime[i]: strike its multiples, from i on.
RECURSIVE SieveLoop(_, _, _, _)
SieveLoop(is_prime, i, stop, n) ==
    IF i >= stop THEN is_prime
    ELSE SieveLoop(IF is_prime[i + 1] THEN Strike(is_prime, i * i, n, i)
                   ELSE is_prime,
                   i + 1, stop, n)

\* Sieve without the striking loop of lines 87-90: the markers are set up and
\* left for later.
Sieve_NoStriking(n) == [j \in 1..n |-> j > 2]

\* The marker array after lines 84-90.
Sieve(n) ==
    SieveLoop([j \in 1..n |-> j > 2], 2, SieveStop(n), n)

\* for i in range(2, n): if is_prime[i]: yield i, from i on: the first marked
\* index, or n when the range ends without one.
RECURSIVE PrimesScan(_, _, _)
PrimesScan(is_prime, i, n) ==
    IF i >= n THEN n
    ELSE IF is_prime[i + 1] THEN i
    ELSE PrimesScan(is_prime, i + 1, n)

\* The final loop of generate_primes from index `from` on, up to its next
\* yield or to the end of the generator.
PrimesYieldFrom(g, is_prime, from) ==
    LET i == PrimesScan(is_prime, from, g.n)
    IN  IF i < g.n
        THEN [gen |-> [g EXCEPT !.is_prime = is_prime, !.i = i,
                                !.pc = "yield_i"],
              raised |-> FALSE, value |-> i]
        ELSE [gen |-> [g EXCEPT !.is_prime = is_prime, !.i = i,
                                !.pc = "done"],
              raised |-> TRUE, value |-> 0]

\* next() on the generate_primes generator.
PrimesGenResume(g) ==
    CASE g.pc = "created" ->
            IF g.n <= 1
            THEN [gen |-> [g EXCEPT !.pc = "done"], raised |-> TRUE, value |-> 0]
            ELSE [gen |-> [g EXCEPT !.pc = "yield_1"], raised |-> FALSE,
                  value |-> 1]
      [] g.pc = "yield_1" ->
            IF g.n <= 2
            THEN [gen |-> [g EXCEPT !.pc = "done"], raised |-> TRUE, value |-> 0]
            ELSE PrimesYieldFrom(g, Sieve(g.n), 2)
      [] g.pc = "yield_i" -> PrimesYieldFrom(g, g.is_prime, g.i + 1)
      [] g.pc = "done" -> [gen |-> g, raised |-> TRUE, value |-> 0]

PrimesNext ==
    /\ task = "primes"
    /\ primes_log.stops <= MaxExtraCalls
    /\ LET r == PrimesGenResume(primes_gen)
       IN  /\ primes_gen' = r.gen
           /\ primes_log' = Record(primes_log, r)
    /\ UNCHANGED <<task, chainVars, zipVars, combVars, flatVars, withVars, fractionVars, factorialVars>>

\* -------------------------------------------- TASK 4: generate_combinations
\* generate_combinations(sequence, k), not yet started.  frames is the chain of
\* suspended _combine calls, outermost first: start is the call's argument, i
\* its loop variable, pc the yield it is suspended at ("yield" is line 108,
\* "yield_from" line 113).  current is the one list all the calls share.
CombGenInit(sequence, k) ==
    [sequence |-> sequence, k |-> k, frames |-> <<>>, current |-> <<>>,
     pc |-> "created"]

\* The guard of line 102 with k < 0 for k <= 0.
CombRejects_ZeroAllowed(k, n) == k > n \/ k < 0

\* The guard of line 102: the generator ends without yielding.
CombRejects(k, n) == k > n \/ k <= 0

\* The start argument of the recursive call, with i for i + 1.
CombNextStart_Same(i) == i

\* The start argument of the recursive call for loop variable i.
CombNextStart(i) == i + 1

RECURSIVE CombEnter(_, _), CombLoop(_), CombReturn(_)

\* A call _combine(start, current) begins to run.
CombEnter(g, start) ==
    IF Len(g.current) = g.k
    THEN [gen |-> [g EXCEPT !.frames = Append(@, [start |-> start, i |-> start,
                                                  pc |-> "yield"]),
                            !.pc = "suspended"],
          raised |-> FALSE, value |-> g.current]
    ELSE CombLoop([g EXCEPT !.frames = Append(@, [start |-> start, i |-> start,
                                                  pc |-> "yield_from"])])

\* The head of the for loop of the innermost call, its i being the candidate.
CombLoop(g) ==
    LET d == Len(g.frames)
        i == g.frames[d].i
    IN  IF i < Len(g.sequence)
        THEN CombEnter([g EXCEPT !.current = Append(@, g.sequence[i + 1])],
                       CombNextStart(i))
        ELSE CombReturn(g)

\* CombReturn with sequence.pop() for current.pop(): the caller takes the
\* last element off the input instead of off the partial selection.
CombReturn_PopsSequence(g) ==
    LET d == Len(g.frames)
    IN  IF d = 1
        THEN [gen |-> [g EXCEPT !.frames = <<>>, !.pc = "done"],
              raised |-> TRUE, value |-> <<>>]
        ELSE CombLoop([g EXCEPT
                 !.frames = [SubSeq(g.frames, 1, d - 1) EXCEPT ![d - 1].i = @ + 1],
                 !.sequence = SubSeq(g.sequence, 1, Len(g.sequence) - 1)])

\* The innermost call returns: its caller pops current and loops on, and the
\* generator ends when the outermost call returns.
CombReturn(g) ==
    LET d == Len(g.frames)
    IN  IF d = 1
        THEN [gen |-> [g EXCEPT !.frames = <<>>, !.pc = "done"],
              raised |-> TRUE, value |-> <<>>]
        ELSE CombLoop([g EXCEPT
                 !.frames = [SubSeq(g.frames, 1, d - 1) EXCEPT ![d - 1].i = @ + 1],
                 !.current = SubSeq(g.current, 1, Len(g.current) - 1)])

\* next() on the generate_combinations generator.
CombGenResume(g) ==
    CASE g.pc = "created" ->
            IF CombRejects(g.k, Len(g.sequence))
            THEN [gen |-> [g EXCEPT !.pc = "done"], raised |-> TRUE,
                  value |-> <<>>]
            ELSE CombEnter(g, 0)
      [] g.pc = "suspended" -> CombReturn(g)
      [] g.pc = "done" -> [gen |-> g, raised |-> TRUE, value |-> <<>>]

CombNext ==
    /\ task = "combinations"
    /\ comb_log.stops <= MaxExtraCalls
    /\ LET r == CombGenResume(comb_gen)
       IN  /\ comb_gen' = r.gen
           /\ comb_log' = Record(comb_log, r)
    /\ UNCHANGED <<task, comb_run, comb_run_log, chainVars, zipVars, primesVars,
                   flatVars, withVars, fractionVars, factorialVars>>

\* ------------- TASK 4, generate_combinations statement by statement
\* The generator with the calls of _combine that have not returned,
\* outermost first.  A frame keeps start, the loop variable i, the partial
\* selection as the call found it (entry, kept for the properties only), and
\* where the call stands:
\*   "test"       at `if len(current) == k` (line 107)
\*   "yield"      suspended at `yield tuple(current)` (line 108)
\*   "for"        at the head of the for loop (line 111)
\*   "yield_from" in `yield from _combine(i + 1, current)` (line 113)
CombRunInit(sequence, k) ==
    [sequence |-> sequence, k |-> k, frames |-> <<>>, current |-> <<>>,
     pc |-> "created"]

CombFrame(start, current) ==
    [start |-> start, i |-> start, entry |-> current, pc |-> "test"]

\* The innermost call returns: a caller goes on behind its `yield from`,
\* at `current.pop()` (line 114) and then the head of the loop again.
CombRunReturn(g) ==
    LET d == Len(g.frames)
    IN  IF d = 1
        THEN [g EXCEPT !.frames = <<>>, !.pc = "done"]
        ELSE [g EXCEPT
                !.frames = [SubSeq(g.frames, 1, d - 1) EXCEPT
                               ![d - 1].i = @ + 1, ![d - 1].pc = "for"],
                !.current = SubSeq(g.current, 1, Len(g.current) - 1),
                !.pc = "running"]

\* CombRunStatement without the current.pop() of line 114.
CombRunStatement_NoPop(g) ==
    LET d == Len(g.frames)
        keep == IF d = 1
                THEN [g EXCEPT !.frames = <<>>, !.pc = "done"]
                ELSE [g EXCEPT
                        !.frames = [SubSeq(g.frames, 1, d - 1) EXCEPT
                                       ![d - 1].i = @ + 1, ![d - 1].pc = "for"],
                        !.pc = "running"]
    IN  CASE g.pc = "created" ->
                IF CombRejects(g.k, Len(g.sequence))
                THEN [g EXCEPT !.pc = "done"]
                ELSE [g EXCEPT !.frames = <<CombFrame(0, <<>>)>>, !.pc = "running"]
          [] g.pc = "done" -> g
          [] OTHER ->
                CASE g.frames[d].pc = "test" ->
                        IF Len(g.current) = g.k
                        THEN [g EXCEPT !.frames[d].pc = "yield", !.pc = "suspended"]
                        ELSE [g EXCEPT !.frames[d].pc = "for"]
                  [] g.frames[d].pc = "yield" -> keep
                  [] OTHER ->
                        IF g.frames[d].i < Len(g.sequence)
                        THEN [g EXCEPT
                                !.current = Append(@, g.sequence[g.frames[d].i + 1]),
                                !.frames = Append([@ EXCEPT ![d].pc = "yield_from"],
                                                  CombFrame(CombNextStart(g.frames[d].i),
                                                            Append(g.current,
                                                                   g.sequence[g.frames[d].i + 1])))]
                        ELSE keep

\* The next statement of the generator: of the body of generate_combinations
\* when it has not started, else of the innermost call of _combine.  The
\* generator is "suspended" when the statement was the yield, "done" when
\* the outermost call has returned or line 103 was reached.
CombRunStatement(g) ==
    LET d == Len(g.frames)
    IN  CASE g.pc = "created" ->
                IF CombRejects(g.k, Len(g.sequence))
                THEN [g EXCEPT !.pc = "done"]
                ELSE [g EXCEPT !.frames = <<CombFrame(0, <<>>)>>, !.pc = "running"]
          [] g.pc = "done" -> g
          [] OTHER ->
                CASE g.frames[d].pc = "test" ->
                        IF Len(g.current) = g.k
                        THEN [g EXCEPT !.frames[d].pc = "yield", !.pc = "suspended"]
                        ELSE [g EXCEPT !.frames[d].pc = "for"]
                  [] g.frames[d].pc = "yield" -> CombRunReturn(g)
                  [] OTHER ->
                        IF g.frames[d].i < Len(g.sequence)
                        THEN [g EXCEPT
                                !.current = Append(@, g.sequence[g.frames[d].i + 1]),
                                !.frames = Append([@ EXCEPT ![d].pc = "yield_from"],
                                                  CombFrame(CombNextStart(g.frames[d].i),
                                                            Append(g.current,
                                                                   g.sequence[g.frames[d].i + 1])))]
                        ELSE CombRunReturn(g)

\* One statement of the generator, run inside a next() of the consumer; the
\* consumer gets tuple(current) at the yield and StopIteration at the end.
CombRunStep ==
    /\ task = "combinations_run"
    /\ comb_run_log.stops <= MaxExtraCalls
    /\ LET g == CombRunStatement(comb_run)
       IN  /\ comb_run' = g
           /\ comb_run_log' =
                  IF g.pc = "suspended" THEN LogValue(comb_run_log, g.current)
                  ELSE IF g.pc = "done" THEN LogStop(comb_run_log)
                  ELSE comb_run_log
    /\ UNCHANGED <<task, comb_gen, comb_log, chainVars, zipVars, primesVars,
                   flatVars, withVars, fractionVars, factorialVars>>

\* ------------------------------------------------ TASK 5: FlattenIterator
\* An element of a nested list: a leaf (anything that is no list), named by
\* the path of indices that leads to it, or a list with its items.
Leaf(path) == [isList |-> FALSE, val |-> path, items |-> <<>>]

List(items) == [isList |-> TRUE, val |-> <<>>, items |-> items]

\* The lists that sit at `path` and hold at most `lists` lists, themselves
\* included (NestedLists), and the ways to fill the `len` places from index i
\* on of the list at `path` with at most `lists` lists (NestedItems).
RECURSIVE NestedLists(_, _), NestedItems(_, _, _, _)
NestedLists(lists, path) ==
    UNION {NestedItems(len, lists - 1, path, 0) : len \in 0..MaxItems}

NestedItems(len, lists, path, i) ==
    IF len = 0 THEN {<<>>}
    ELSE {<<Leaf(Append(path, i))>> \o rest :
              rest \in NestedItems(len - 1, lists, path, i + 1)}
         \cup UNION {{<<List(sub)>> \o rest :
                          sub \in NestedLists(used, Append(path, i)),
                          rest \in NestedItems(len - 1, lists - used, path, i + 1)} :
                     used \in 1..lists}

\* FlattenIterator(nested_list): a frame of the stack is (list, current_index).
FlattenIteratorInit(nested_list) ==
    [nested_list |-> nested_list, stack |-> <<<<nested_list, 0>>>>]

\* FlattenIteratorNext that returns a nested list as if it were a leaf.
RECURSIVE FlattenIteratorNext_NoDescent(_)
FlattenIteratorNext_NoDescent(self) ==
    IF Len(self.stack) = 0
    THEN [self |-> self, raised |-> TRUE, value |-> <<>>]
    ELSE LET top == Len(self.stack)
             current_list == self.stack[top][1]
             index == self.stack[top][2]
         IN  IF index >= Len(current_list)
             THEN FlattenIteratorNext_NoDescent(
                      [self EXCEPT !.stack = SubSeq(@, 1, top - 1)])
             ELSE [self |-> [self EXCEPT !.stack[top] = <<current_list, index + 1>>],
                   raised |-> FALSE, value |-> current_list[index + 1].val]

\* FlattenIteratorNext that raises StopIteration as soon as the list on top
\* of the stack is used up, instead of going on in the list that holds it.
RECURSIVE FlattenIteratorNext_StopsAtListEnd(_)
FlattenIteratorNext_StopsAtListEnd(self) ==
    IF Len(self.stack) = 0
    THEN [self |-> self, raised |-> TRUE, value |-> <<>>]
    ELSE LET top == Len(self.stack)
             current_list == self.stack[top][1]
             index == self.stack[top][2]
         IN  IF index >= Len(current_list)
             THEN [self |-> [self EXCEPT !.stack = SubSeq(@, 1, top - 1)],
                   raised |-> TRUE, value |-> <<>>]
             ELSE LET element == current_list[index + 1]
                      stepped == [self EXCEPT !.stack[top] =
                                     <<current_list, index + 1>>]
                  IN  IF element.isList
                      THEN FlattenIteratorNext_StopsAtListEnd(
                               [stepped EXCEPT !.stack =
                                   Append(@, <<element.items, 0>>)])
                      ELSE [self |-> stepped, raised |-> FALSE,
                            value |-> element.val]

\* FlattenIteratorNext that, in the call that returns the last element of a
\* list, already pops the frame of that list.
RECURSIVE FlattenIteratorNext_EagerPop(_)
FlattenIteratorNext_EagerPop(self) ==
    IF Len(self.stack) = 0
    THEN [self |-> self, raised |-> TRUE, value |-> <<>>]
    ELSE LET top == Len(self.stack)
             current_list == self.stack[top][1]
             index == self.stack[top][2]
         IN  IF index >= Len(current_list)
             THEN FlattenIteratorNext_EagerPop(
                      [self EXCEPT !.stack = SubSeq(@, 1, top - 1)])
             ELSE LET element == current_list[index + 1]
                      stepped == [self EXCEPT !.stack[top] =
                                     <<current_list, index + 1>>]
                  IN  IF element.isList
                      THEN FlattenIteratorNext_EagerPop(
                               [stepped EXCEPT !.stack =
                                   Append(@, <<element.items, 0>>)])
                      ELSE [self |-> IF index + 1 >= Len(current_list)
                                     THEN [self EXCEPT !.stack =
                                              SubSeq(@, 1, top - 1)]
                                     ELSE stepped,
                            raised |-> FALSE,
                            value |-> element.val]

\* FlattenIteratorNext that, when it pushes a nested list, stores an index
\* in the frame below that is one too far.
RECURSIVE FlattenIteratorNext_SkipsAfterList(_)
FlattenIteratorNext_SkipsAfterList(self) ==
    IF Len(self.stack) = 0
    THEN [self |-> self, raised |-> TRUE, value |-> <<>>]
    ELSE LET top == Len(self.stack)
             current_list == self.stack[top][1]
             index == self.stack[top][2]
         IN  IF index >= Len(current_list)
             THEN FlattenIteratorNext_SkipsAfterList(
                      [self EXCEPT !.stack = SubSeq(@, 1, top - 1)])
             ELSE LET element == current_list[index + 1]
                      stepped == [self EXCEPT !.stack[top] =
                                     <<current_list, index + 1>>]
                  IN  IF element.isList
                      THEN FlattenIteratorNext_SkipsAfterList(
                               [self EXCEPT !.stack =
                                   Append([@ EXCEPT ![top] =
                                              <<current_list, index + 2>>],
                                          <<element.items, 0>>)])
                      ELSE [self |-> stepped, raised |-> FALSE,
                            value |-> element.val]

\* FlattenIterator.__next__: the `while self.stack` loop.
RECURSIVE FlattenIteratorNext(_)
FlattenIteratorNext(self) ==
    IF Len(self.stack) = 0
    THEN [self |-> self, raised |-> TRUE, value |-> <<>>]
    ELSE LET top == Len(self.stack)
             current_list == self.stack[top][1]
             index == self.stack[top][2]
         IN  IF index >= Len(current_list)
             THEN FlattenIteratorNext([self EXCEPT !.stack = SubSeq(@, 1, top - 1)])
             ELSE LET element == current_list[index + 1]
                      stepped == [self EXCEPT !.stack[top] =
                                     <<current_list, index + 1>>]
                  IN  IF element.isList
                      THEN FlattenIteratorNext(
                               [stepped EXCEPT !.stack =
                                   Append(@, <<element.items, 0>>)])
                      ELSE [self |-> stepped, raised |-> FALSE,
                            value |-> element.val]

\* flatten_iterator_generator(nested_list), not yet started.  frames is the
\* chain of suspended calls, outermost first, each the iterator of its for
\* loop; all but the innermost are suspended in `yield from` (line 155), the
\* innermost at `yield element` (line 157).
FlattenGenInit(nested_list) ==
    [nested_list |-> nested_list, frames |-> <<>>, pc |-> "created"]

\* FlattenGenLoop with `yield` for `yield from`: the generator made for a
\* nested list is yielded as a value and never run.
RECURSIVE FlattenGenLoop_YieldsGenerator(_)
FlattenGenLoop_YieldsGenerator(g) ==
    IF Len(g.frames) = 0
    THEN [gen |-> [g EXCEPT !.pc = "done"], raised |-> TRUE, value |-> <<>>]
    ELSE LET top == Len(g.frames)
             it == g.frames[top]
         IN  IF ~ListIterHasNext(it)
             THEN FlattenGenLoop_YieldsGenerator(
                      [g EXCEPT !.frames = SubSeq(@, 1, top - 1)])
             ELSE [gen |-> [g EXCEPT !.frames[top] = ListIterAdvance(it),
                                     !.pc = "suspended"],
                   raised |-> FALSE, value |-> ListIterValue(it).val]

\* The for loop of the innermost call from its loop head.
RECURSIVE FlattenGenLoop(_)
FlattenGenLoop(g) ==
    IF Len(g.frames) = 0
    THEN [gen |-> [g EXCEPT !.pc = "done"], raised |-> TRUE, value |-> <<>>]
    ELSE LET top == Len(g.frames)
             it == g.frames[top]
         IN  IF ~ListIterHasNext(it)
             THEN FlattenGenLoop([g EXCEPT !.frames = SubSeq(@, 1, top - 1)])
             ELSE LET element == ListIterValue(it)
                      stepped == [g EXCEPT !.frames[top] = ListIterAdvance(it)]
                  IN  IF element.isList
                      THEN FlattenGenLoop(
                               [stepped EXCEPT !.frames =
                                   Append(@, ListIter(element.items))])
                      ELSE [gen |-> [stepped EXCEPT !.pc = "suspended"],
                            raised |-> FALSE, value |-> element.val]

\* next() on the flatten_iterator_generator generator.
FlattenGenResume(g) ==
    CASE g.pc = "created" ->
            FlattenGenLoop([g EXCEPT !.frames = <<ListIter(g.nested_list)>>])
      [] g.pc = "suspended" -> FlattenGenLoop(g)
      [] g.pc = "done" -> [gen |-> g, raised |-> TRUE, value |-> <<>>]

FlattenNext ==
    /\ task = "flatten"
    /\ flat_log.stops <= MaxExtraCalls
    /\ LET r == FlattenIteratorNext(flat)
       IN  /\ flat' = r.self
           /\ flat_log' = Record(flat_log, r)
    /\ UNCHANGED <<task, flat_gen, flat_gen_log, flat_loop, flat_loop_log,
                   chainVars, zipVars,
                   primesVars, combVars, withVars, fractionVars, factorialVars>>

FlattenGenNext ==
    /\ task = "flatten"
    /\ flat_gen_log.stops <= MaxExtraCalls
    /\ LET r == FlattenGenResume(flat_gen)
       IN  /\ flat_gen' = r.gen
           /\ flat_gen_log' = Record(flat_gen_log, r)
    /\ UNCHANGED <<task, flat, flat_log, flat_loop, flat_loop_log,
                   chainVars, zipVars,
                   primesVars, combVars, withVars, fractionVars, factorialVars>>

\* ------------------------- TASK 5, FlattenIterator.__next__ pass by pass
\* The consumer's record of a FlattenIterator followed pass by pass through
\* the loop of __next__: the log of the calls, and the number of passes
\* through the body of the loop made so far.
NewLoopLog == [out |-> <<>>, stops |-> 0, iterations |-> 0]

\* A FlattenIterator and where the control stands: "idle" between two calls
\* of __next__, "while" inside a call, at the test of `while self.stack`.
FlattenLoopInit(nested_list) ==
    [self |-> FlattenIteratorInit(nested_list), pc |-> "idle"]

\* A pass that, when it pops a used-up list, also steps over the next
\* element of the list below it.
FlattenIteratorIteration_PopSkips(self) ==
    LET top == Len(self.stack)
        current_list == self.stack[top][1]
        index == self.stack[top][2]
    IN  IF index >= Len(current_list)
        THEN [self |-> [self EXCEPT !.stack =
                           IF top > 1
                           THEN [SubSeq(@, 1, top - 1) EXCEPT
                                    ![top - 1] = <<@[1], @[2] + 1>>]
                           ELSE SubSeq(@, 1, top - 1)],
              returned |-> FALSE, value |-> <<>>]
        ELSE LET element == current_list[index + 1]
                 stepped == [self EXCEPT !.stack[top] =
                                <<current_list, index + 1>>]
             IN  IF element.isList
                 THEN [self |-> [stepped EXCEPT !.stack =
                                    Append(@, <<element.items, 0>>)],
                       returned |-> FALSE, value |-> <<>>]
                 ELSE [self |-> stepped, returned |-> TRUE,
                       value |-> element.val]

\* A pass that leaves a used-up list on the stack.
FlattenIteratorIteration_NeverPops(self) ==
    LET top == Len(self.stack)
        current_list == self.stack[top][1]
        index == self.stack[top][2]
    IN  IF index >= Len(current_list)
        THEN [self |-> self, returned |-> FALSE, value |-> <<>>]
        ELSE LET element == current_list[index + 1]
                 stepped == [self EXCEPT !.stack[top] =
                                <<current_list, index + 1>>]
             IN  IF element.isList
                 THEN [self |-> [stepped EXCEPT !.stack =
                                    Append(@, <<element.items, 0>>)],
                       returned |-> FALSE, value |-> <<>>]
                 ELSE [self |-> stepped, returned |-> TRUE,
                       value |-> element.val]

\* One pass through the body of `while self.stack` (lines 131-146), entered
\* with a stack that is not empty: the object after it, whether the pass
\* ended in `return element`, and the element.
FlattenIteratorIteration(self) ==
    LET top == Len(self.stack)
        current_list == self.stack[top][1]
        index == self.stack[top][2]
    IN  IF index >= Len(current_list)
        THEN [self |-> [self EXCEPT !.stack = SubSeq(@, 1, top - 1)],
              returned |-> FALSE, value |-> <<>>]
        ELSE LET element == current_list[index + 1]
                 stepped == [self EXCEPT !.stack[top] =
                                <<current_list, index + 1>>]
             IN  IF element.isList
                 THEN [self |-> [stepped EXCEPT !.stack =
                                    Append(@, <<element.items, 0>>)],
                       returned |-> FALSE, value |-> <<>>]
                 ELSE [self |-> stepped, returned |-> TRUE,
                       value |-> element.val]

\* The test of `while self.stack` and what follows it: a pass through the
\* body, or `raise StopIteration` (line 148).  From "idle" the step is the
\* first one of a new call.
FlattenLoopStep ==
    /\ task = "flatten_loop"
    /\ flat_loop_log.stops <= MaxExtraCalls
    /\ IF Len(flat_loop.self.stack) = 0
       THEN /\ flat_loop' = [flat_loop EXCEPT !.pc = "idle"]
            /\ flat_loop_log' = [flat_loop_log EXCEPT !.stops = @ + 1]
       ELSE LET r == FlattenIteratorIteration(flat_loop.self)
            IN  /\ flat_loop' = [self |-> r.self,
                                 pc |-> IF r.returned THEN "idle" ELSE "while"]
                /\ flat_loop_log' =
                       [flat_loop_log EXCEPT
                           !.iterations = @ + 1,
                           !.out = IF r.returned THEN Append(@, r.value) ELSE @]
    /\ UNCHANGED <<task, flat, flat_gen, flat_log, flat_gen_log, chainVars,
                   zipVars, primesVars, combVars, withVars, fractionVars, factorialVars>>

\* ------------------------------- context managers, TASK 1: the saver
\* What an attribute holds: an int itself, a list by reference into heap.
IntValue(i) == [isList |-> FALSE, int |-> i, ref |-> 0]

ListValue(ref) == [isList |-> TRUE, int |-> 0, ref |-> ref]

\* TestObject(): value = 0, data = [1, 2, 3].  (name, the second attribute
\* of immutable value, and the methods are left out.)
TestObjectInit == [value |-> IntValue(0), data |-> ListValue(1)]

TestObjectHeap == <<<<1, 2, 3>>>>

\* The values the body assigns to obj.value.
AssignedValues == {100, 999}

\* The element the body appends to obj.data.
AppendedValue == 4

\* The save_attrs argument: None, or a list of attribute names, some of
\* which the object may not have.
NoneAttrs == [is_none |-> TRUE, attrs |-> {}]

AttrList(attrs) == [is_none |-> FALSE, attrs |-> attrs]

SaveAttrs == {NoneAttrs} \cup {AttrList(attrs) : attrs \in SUBSET {"value", "data", "missing"}}

\* TransactionalObjectSaver(obj, save_attrs); original_state is a dict from
\* attribute name to what the attribute held.
TransactionalObjectSaverInit(save_attrs) ==
    [save_attrs |-> save_attrs,
     original_state |-> [attr \in {} |-> IntValue(0)]]

\* __enter__: getattr copies what the attribute holds, the reference for a
\* list.
TransactionalObjectSaverEnter(self, o) ==
    [self EXCEPT !.original_state =
        IF self.save_attrs.is_none
        THEN [attr \in DOMAIN o |-> o[attr]]
        ELSE [attr \in {a \in self.save_attrs.attrs : a \in DOMAIN o} |-> o[attr]]]

\* __exit__(exc_type, ...): the object's attributes after the call and the
\* value returned.  exc says whether exc_type is not None.
TransactionalObjectSaverExit(self, o, exc) ==
    IF exc
    THEN [obj |-> [attr \in DOMAIN o |->
                      IF attr \in DOMAIN self.original_state
                      THEN self.original_state[attr]
                      ELSE o[attr]],
          suppress |-> FALSE]
    ELSE [obj |-> o, suppress |-> FALSE]

\* ----------------------- context managers, TASK 2: the error suppressor
\* The exception types a body raises.  None of them is a subclass of
\* another; all are subclasses of Exception.
ExceptionTypes == {"ValueError", "ZeroDivisionError", "KeyError"}

\* issubclass(exc_type, exc)
IsSubclass(exc_type, exc) == exc_type = exc \/ exc = "Exception"

\* ErrorSuppressor(*exceptions): with no argument it suppresses Exception.
ErrorSuppressorInit(exceptions) ==
    [exceptions |-> IF exceptions = {} THEN {"Exception"} ELSE exceptions]

\* ErrorSuppressor.__exit__: the value returned.  exc_type is "None" when
\* the body did not raise.
ErrorSuppressorExit(self, exc_type) ==
    /\ exc_type # "None"
    /\ \E exc \in self.exceptions : IsSubclass(exc_type, exc)

\* ------------------------------ context managers, TASK 4: the mock manager
\* The value a mocked attribute is given.
MockValue == IntValue(999)

\* The keyword arguments of mock(obj, **mock_attrs): new_attr is no attribute
\* of a TestObject.
MockAttrs ==
    {[attr \in names |-> MockValue] : names \in SUBSET {"value", "data", "new_attr"}}

\* MockManager(obj, **mock_attrs)
MockManagerInit(mock_attrs) ==
    [mock_attrs |-> mock_attrs,
     original_attrs |-> [attr \in {} |-> IntValue(0)]]

\* MockManager.__enter__: the manager and the object's attributes after it.
MockManagerEnter(self, o) ==
    LET saved == {attr \in DOMAIN self.mock_attrs : attr \in DOMAIN o}
    IN  [self |-> [self EXCEPT !.original_attrs =
                      [attr \in DOMAIN self.original_attrs \cup saved |->
                          IF attr \in saved THEN o[attr]
                          ELSE self.original_attrs[attr]]],
         obj |-> [attr \in DOMAIN o \cup DOMAIN self.mock_attrs |->
                     IF attr \in DOMAIN self.mock_attrs
                     THEN self.mock_attrs[attr]
                     ELSE o[attr]]]

\* MockManager.__exit__ without the clean-up loop of lines 217-221.
MockManagerExit_NoCleanup(self, o) ==
    [obj |-> [attr \in DOMAIN o \cup DOMAIN self.original_attrs |->
                 IF attr \in DOMAIN self.original_attrs
                 THEN self.original_attrs[attr]
                 ELSE o[attr]],
     suppress |-> FALSE]

\* MockManager.__exit__: the object's attributes after the call and the
\* value returned.
MockManagerExit(self, o) ==
    LET restored == [attr \in DOMAIN o \cup DOMAIN self.original_attrs |->
                        IF attr \in DOMAIN self.original_attrs
                        THEN self.original_attrs[attr]
                        ELSE o[attr]]
        added == {attr \in DOMAIN self.mock_attrs :
                      attr \notin DOMAIN self.original_attrs}
    IN  [obj |-> [attr \in DOMAIN restored \ added |-> restored[attr]],
         suppress |-> FALSE]

\* ------------------------------------ context managers: the with statement
\* The managers of the with statement of each task, outermost first:
\*   transaction   with TransactionalObjectSaver(obj, save_attrs)
\*   mock          with mock(obj, **mock_attrs)
\*   combined      with TransactionalObjectSaver(obj, save_attrs),
\*                      ErrorSuppressor(*exceptions), mock(obj, **mock_attrs)
WithTasks == {"transaction", "mock", "combined"}

HasSaver == task \in {"transaction", "combined"}

HasSuppressor == task = "combined"

HasMock == task \in {"mock", "combined"}

\* What the code around the with statement keeps: the object and the lists
\* as they were when the with statement was entered, the number of
\* statements the body has run, whether the body raised, the type of the
\* exception ("None" when it did not raise) and whether the exception came
\* out of the with statement.
NewWithLog ==
    [entry_obj |-> TestObjectInit, entry_heap |-> TestObjectHeap,
     steps |-> 0, raised |-> FALSE, exc_type |-> "None", propagated |-> FALSE]

\* The __exit__ calls of a with statement whose body ended with exc_type
\* ("None": it did not raise), innermost manager first: the object's
\* attributes after them and the exception that is left.  A manager that
\* returns a true value ends the exception for the managers outside it.
WithExit(o, exc_type) ==
    LET m == IF HasMock THEN MockManagerExit(mocker, o)
             ELSE [obj |-> o, suppress |-> FALSE]
        exc_m == IF m.suppress THEN "None" ELSE exc_type
        exc_e == IF HasSuppressor /\ ErrorSuppressorExit(suppressor, exc_m)
                 THEN "None" ELSE exc_m
        t == IF HasSaver
             THEN TransactionalObjectSaverExit(saver, m.obj, exc_e # "None")
             ELSE [obj |-> m.obj, suppress |-> FALSE]
    IN  [obj |-> t.obj,
         exc_type |-> IF t.suppress THEN "None" ELSE exc_e]

\* The header of the with statement: the __enter__ calls, outermost manager
\* first.
WithEnter ==
    /\ task \in WithTasks
    /\ with_pc = "before"
    /\ saver' = IF HasSaver THEN TransactionalObjectSaverEnter(saver, obj)
                ELSE saver
    /\ LET m == IF HasMock THEN MockManagerEnter(mocker, obj)
                ELSE [self |-> mocker, obj |-> obj]
       IN  /\ mocker' = m.self
           /\ obj' = m.obj
    /\ with_pc' = "body"
    /\ with_log' = [with_log EXCEPT !.entry_obj = obj, !.entry_heap = heap]
    /\ UNCHANGED <<task, heap, suppressor, chainVars, zipVars, primesVars,
                   combVars, flatVars,
                   fractionVars, factorialVars>>

\* safe_obj.value = v
BodyAssign ==
    /\ task \in WithTasks
    /\ with_pc = "body"
    /\ with_log.steps < MaxBodySteps
    /\ \E v \in AssignedValues : obj' = [obj EXCEPT !.value = IntValue(v)]
    /\ with_log' = [with_log EXCEPT !.steps = @ + 1]
    /\ UNCHANGED <<task, heap, saver, suppressor, mocker, with_pc, chainVars,
                   zipVars, primesVars, combVars, flatVars,
                   fractionVars, factorialVars>>

\* safe_obj.data.append(x)
BodyAppend ==
    /\ task \in WithTasks
    /\ with_pc = "body"
    /\ with_log.steps < MaxBodySteps
    /\ obj.data.isList
    /\ heap' = [heap EXCEPT ![obj.data.ref] = Append(@, AppendedValue)]
    /\ with_log' = [with_log EXCEPT !.steps = @ + 1]
    /\ UNCHANGED <<task, obj, saver, suppressor, mocker, with_pc, chainVars,
                   zipVars, primesVars, combVars, flatVars,
                   fractionVars, factorialVars>>

\* raise ValueError(...) in the body: the __exit__ calls run with the
\* exception and the exception goes on unless one of them returned a true
\* value.
BodyRaise ==
    /\ task \in WithTasks
    /\ with_pc = "body"
    /\ \E exc_type \in ExceptionTypes :
          LET r == WithExit(obj, exc_type)
          IN  /\ obj' = r.obj
              /\ with_log' = [with_log EXCEPT !.raised = TRUE,
                                              !.exc_type = exc_type,
                                              !.propagated = r.exc_type # "None"]
    /\ with_pc' = "after"
    /\ UNCHANGED <<task, heap, saver, suppressor, mocker, chainVars, zipVars,
                   primesVars, combVars, flatVars,
                   fractionVars, factorialVars>>

\* The body runs to its end: __exit__(None, None, None) of every manager.
BodyEnd ==
    /\ task \in WithTasks
    /\ with_pc = "body"
    /\ LET r == WithExit(obj, "None")
       IN  obj' = r.obj
    /\ with_pc' = "after"
    /\ UNCHANGED <<task, heap, saver, suppressor, mocker, with_log, chainVars,
                   zipVars, primesVars, combVars, flatVars,
                   fractionVars, factorialVars>>

\* ------------------------------------------------- RationalFraction
Abs(x) == IF x < 0 THEN -x ELSE x

\* math.gcd of two numbers that are not negative.
RECURSIVE Gcd(_, _)
Gcd(a, b) == IF b = 0 THEN a ELSE Gcd(b, a % b)

\* _reduce: both divisions are exact, and the denominator is never 0.
Reduce(self) ==
    LET gcd_val == Gcd(Abs(self.numerator), Abs(self.denominator))
        numerator == self.numerator \div gcd_val
        denominator == self.denominator \div gcd_val
    IN  IF denominator < 0
        THEN [numerator |-> -numerator, denominator |-> -denominator]
        ELSE [numerator |-> numerator, denominator |-> denominator]

\* RationalFraction(numerator, denominator), denominator not 0.
RationalFractionInit(numerator, denominator) ==
    Reduce([numerator |-> numerator, denominator |-> denominator])

\* __add__: the new fraction returned.
RationalFractionAdd(self, other) ==
    [raised |-> FALSE,
     value |-> RationalFractionInit(self.numerator * other.denominator + other.numerator * self.denominator,
                                    self.denominator * other.denominator)]

\* __sub__: the new fraction returned.
RationalFractionSub(self, other) ==
    [raised |-> FALSE,
     value |-> RationalFractionInit(self.numerator * other.denominator - other.numerator * self.denominator,
                                    self.denominator * other.denominator)]

\* __mul__: the new fraction returned.
RationalFractionMul(self, other) ==
    [raised |-> FALSE,
     value |-> RationalFractionInit(self.numerator * other.numerator,
                                    self.denominator * other.denominator)]

\* __truediv__: the new fraction returned, or the ZeroDivisionError raised.
RationalFractionTrueDiv(self, other) ==
    IF other.numerator = 0
    THEN [raised |-> TRUE, value |-> self]
    ELSE [raised |-> FALSE,
          value |-> RationalFractionInit(self.numerator * other.denominator,
                                         self.denominator * other.numerator)]

\* __iadd__ on the object at h[self] with the object at h[other], which may
\* be the same object: the two assignments in the order of the source, each
\* reading the attributes as the one before left them, then _reduce.
RationalFractionIAdd(h, self, other) ==
    LET h1 == [h EXCEPT ![self].numerator = h[self].numerator * h[other].denominator
                             + h[other].numerator * h[self].denominator]
        h2 == [h1 EXCEPT ![self].denominator = h1[self].denominator * h1[other].denominator]
    IN  [raised |-> FALSE, heap |-> [h2 EXCEPT ![self] = Reduce(@)]]

\* __isub__ on the object at h[self] with the object at h[other], which may
\* be the same object: the two assignments in the order of the source, each
\* reading the attributes as the one before left them, then _reduce.
RationalFractionISub(h, self, other) ==
    LET h1 == [h EXCEPT ![self].numerator = h[self].numerator * h[other].denominator
                             - h[other].numerator * h[self].denominator]
        h2 == [h1 EXCEPT ![self].denominator = h1[self].denominator * h1[other].denominator]
    IN  [raised |-> FALSE, heap |-> [h2 EXCEPT ![self] = Reduce(@)]]

\* __imul__ on the object at h[self] with the object at h[other], which may
\* be the same object: the two assignments in the order of the source, each
\* reading the attributes as the one before left them, then _reduce.
RationalFractionIMul(h, self, other) ==
    LET h1 == [h EXCEPT ![self].numerator = h[self].numerator * h[other].numerator]
        h2 == [h1 EXCEPT ![self].denominator = h1[self].denominator * h1[other].denominator]
    IN  [raised |-> FALSE, heap |-> [h2 EXCEPT ![self] = Reduce(@)]]

\* __itruediv__ on the object at h[self] with the object at h[other], which may
\* be the same object: the two assignments in the order of the source, each
\* reading the attributes as the one before left them, then _reduce.
RationalFractionITrueDiv(h, self, other) ==
    IF h[other].numerator = 0
    THEN [raised |-> TRUE, heap |-> h]
    ELSE LET h1 == [h EXCEPT ![self].numerator = h[self].numerator * h[other].denominator]
             h2 == [h1 EXCEPT ![self].denominator = h1[self].denominator * h1[other].numerator]
         IN  [raised |-> FALSE, heap |-> [h2 EXCEPT ![self] = Reduce(@)]]

\* What the caller keeps of the one method call it makes: the method, which
\* object was the other operand, whether the call raised, and the fraction
\* returned (the object itself for an in-place method).
NoCall == [method |-> "None", other |-> 0, raised |-> FALSE,
           value |-> RationalFractionInit(0, 1)]

\* result = a + b
FractionAdd ==
    /\ task = "fraction"
    /\ fractions_log.method = "None"
    /\ \E other \in 1..2 :
          LET r == RationalFractionAdd(fractions[1], fractions[other])
          IN  fractions_log' = [method |-> "__add__", other |-> other,
                                raised |-> r.raised, value |-> r.value]
    /\ UNCHANGED <<task, fractions, chainVars, zipVars, primesVars, combVars,
                   flatVars, withVars, factorialVars>>

\* a += b
FractionIAdd ==
    /\ task = "fraction"
    /\ fractions_log.method = "None"
    /\ \E other \in 1..2 :
          LET r == RationalFractionIAdd(fractions, 1, other)
          IN  /\ fractions' = r.heap
              /\ fractions_log' = [method |-> "__iadd__", other |-> other,
                                    raised |-> r.raised, value |-> r.heap[1]]
    /\ UNCHANGED <<task, chainVars, zipVars, primesVars, combVars, flatVars,
                   withVars, factorialVars>>

\* result = a - b
FractionSub ==
    /\ task = "fraction"
    /\ fractions_log.method = "None"
    /\ \E other \in 1..2 :
          LET r == RationalFractionSub(fractions[1], fractions[other])
          IN  fractions_log' = [method |-> "__sub__", other |-> other,
                                raised |-> r.raised, value |-> r.value]
    /\ UNCHANGED <<task, fractions, chainVars, zipVars, primesVars, combVars,
                   flatVars, withVars, factorialVars>>

\* a -= b
FractionISub ==
    /\ task = "fraction"
    /\ fractions_log.method = "None"
    /\ \E other \in 1..2 :
          LET r == RationalFractionISub(fractions, 1, other)
          IN  /\ fractions' = r.heap
              /\ fractions_log' = [method |-> "__isub__", other |-> other,
                                    raised |-> r.raised, value |-> r.heap[1]]
    /\ UNCHANGED <<task, chainVars, zipVars, primesVars, combVars, flatVars,
                   withVars, factorialVars>>

\* result = a * b
FractionMul ==
    /\ task = "fraction"
    /\ fractions_log.method = "None"
    /\ \E other \in 1..2 :
          LET r == RationalFractionMul(fractions[1], fractions[other])
          IN  fractions_log' = [method |-> "__mul__", other |-> other,
                                raised |-> r.raised, value |-> r.value]
    /\ UNCHANGED <<task, fractions, chainVars, zipVars, primesVars, combVars,
                   flatVars, withVars, factorialVars>>

\* a *= b
FractionIMul ==
    /\ task = "fraction"
    /\ fractions_log.method = "None"
    /\ \E other \in 1..2 :
          LET r == RationalFractionIMul(fractions, 1, other)
          IN  /\ fractions' = r.heap
              /\ fractions_log' = [method |-> "__imul__", other |-> other,
                                    raised |-> r.raised, value |-> r.heap[1]]
    /\ UNCHANGED <<task, chainVars, zipVars, primesVars, combVars, flatVars,
                   withVars, factorialVars>>

\* result = a / b
FractionTrueDiv ==
    /\ task = "fraction"
    /\ fractions_log.method = "None"
    /\ \E other \in 1..2 :
          LET r == RationalFractionTrueDiv(fractions[1], fractions[other])
          IN  fractions_log' = [method |-> "__truediv__", other |-> other,
                                raised |-> r.raised, value |-> r.value]
    /\ UNCHANGED <<task, fractions, chainVars, zipVars, primesVars, combVars,
                   flatVars, withVars, factorialVars>>

\* a /= b
FractionITrueDiv ==
    /\ task = "fraction"
    /\ fractions_log.method = "None"
    /\ \E other \in 1..2 :
          LET r == RationalFractionITrueDiv(fractions, 1, other)
          IN  /\ fractions' = r.heap
              /\ fractions_log' = [method |-> "__itruediv__", other |-> other,
                                    raised |-> r.raised, value |-> r.heap[1]]
    /\ UNCHANGED <<task, chainVars, zipVars, primesVars, combVars, flatVars,
                   withVars, factorialVars>>

\* ------------------------------------------------------ factorial_sum
\* sum(memo[i] for i in range(1, n + 1))
RECURSIVE SumMemo(_, _)
SumMemo(m, n) == IF n = 0 THEN 0 ELSE SumMemo(m, n - 1) + m[n]

\* factorial_sum(n, memo) for n >= 0: the dictionary after the call and the
\* value returned.  The inner call factorial_sum(n - 1) works on the same
\* dictionary.
RECURSIVE FactorialSum(_, _)
FactorialSum(n, m) ==
    IF n = 0 THEN [memo |-> m, value |-> 1]
    ELSE LET filled ==
                 IF n \notin DOMAIN m
                 THEN LET inner == FactorialSum(n - 1, m)
                      IN  [i \in DOMAIN inner.memo \cup {n} |->
                              IF i = n THEN n * inner.value ELSE inner.memo[i]]
                 ELSE m
         IN  [memo |-> filled, value |-> SumMemo(filled, n)]

\* A call factorial_sum(n) made from outside.
FactorialSumCall ==
    /\ task = "factorial"
    /\ memo_log.calls < MaxCalls
    /\ \E n \in 0..MaxFactorial :
          LET r == FactorialSum(n, memo)
          IN  /\ memo' = r.memo
              /\ memo_log' = [n |-> n, value |-> r.value,
                              calls |-> memo_log.calls + 1]
    /\ UNCHANGED <<task, chainVars, zipVars, primesVars, combVars, flatVars,
                   withVars, fractionVars>>

\* ------------------------------------------------------------ the system
\* The objects of the tasks the consumer is not running are built on empty
\* arguments and never advanced.
IdleChain ==
    /\ chain = ChainSequencesInit(<<>>)
    /\ chain_gen = ChainGenInit(<<>>)

IdleZip ==
    /\ zip = ZipSequencesInit(<<>>)
    /\ zip_gen = ZipGenInit(<<>>)

IdlePrimes == primes_gen = PrimesGenInit(0)

IdleComb == comb_gen = CombGenInit(<<>>, 0)

IdleCombRun == comb_run = CombRunInit(<<>>, 0)

IdleFlatten ==
    /\ flat = FlattenIteratorInit(<<>>)
    /\ flat_gen = FlattenGenInit(<<>>)

IdleFlattenLoop == flat_loop = FlattenLoopInit(<<>>)

IdleFraction ==
    fractions = <<RationalFractionInit(0, 1), RationalFractionInit(0, 1)>>

IdleTransaction == saver = TransactionalObjectSaverInit(AttrList({}))

IdleSuppressor == suppressor = ErrorSuppressorInit({})

IdleMock == mocker = MockManagerInit([attr \in {} |-> MockValue])

InitChain ==
    /\ task = "chain"
    /\ \E sequences \in InputSequences :
          /\ chain = ChainSequencesInit(sequences)
          /\ chain_gen = ChainGenInit(sequences)
    /\ IdleFraction /\ IdleCombRun
    /\ IdleZip /\ IdlePrimes /\ IdleComb /\ IdleFlatten /\ IdleTransaction
    /\ IdleSuppressor /\ IdleMock /\ IdleFlattenLoop

InitZip ==
    /\ task = "zip"
    /\ \E sequences \in InputSequences :
          /\ zip = ZipSequencesInit(sequences)
          /\ zip_gen = ZipGenInit(sequences)
    /\ IdleFraction /\ IdleCombRun
    /\ IdleChain /\ IdlePrimes /\ IdleComb /\ IdleFlatten /\ IdleTransaction
    /\ IdleSuppressor /\ IdleMock /\ IdleFlattenLoop

InitPrimes ==
    /\ task = "primes"
    /\ \E n \in 0..MaxN : primes_gen = PrimesGenInit(n)
    /\ IdleFraction /\ IdleCombRun
    /\ IdleChain /\ IdleZip /\ IdleComb /\ IdleFlatten /\ IdleTransaction
    /\ IdleSuppressor /\ IdleMock /\ IdleFlattenLoop

InitComb ==
    /\ task = "combinations"
    /\ \E n \in 0..MaxCombLen, k \in -1..(MaxCombLen + 1) :
          comb_gen = CombGenInit(InputSeq(0, n), k)
    /\ IdleFraction /\ IdleCombRun
    /\ IdleChain /\ IdleZip /\ IdlePrimes /\ IdleFlatten /\ IdleTransaction
    /\ IdleSuppressor /\ IdleMock /\ IdleFlattenLoop

InitFlatten ==
    /\ task = "flatten"
    /\ \E nested_list \in NestedLists(MaxLists, <<>>) :
          /\ flat = FlattenIteratorInit(nested_list)
          /\ flat_gen = FlattenGenInit(nested_list)
    /\ IdleFraction /\ IdleCombRun
    /\ IdleChain /\ IdleZip /\ IdlePrimes /\ IdleComb /\ IdleTransaction
    /\ IdleSuppressor /\ IdleMock /\ IdleFlattenLoop

InitFlattenLoop ==
    /\ task = "flatten_loop"
    /\ \E nested_list \in NestedLists(MaxLists, <<>>) :
          flat_loop = FlattenLoopInit(nested_list)
    /\ IdleFraction /\ IdleCombRun
    /\ IdleChain /\ IdleZip /\ IdlePrimes /\ IdleComb /\ IdleFlatten
    /\ IdleTransaction /\ IdleSuppressor /\ IdleMock

InitFraction ==
    /\ task = "fraction"
    /\ \E n1 \in -MaxFraction..MaxFraction, n2 \in -MaxFraction..MaxFraction,
          d1 \in (-MaxFraction..MaxFraction) \ {0},
          d2 \in (-MaxFraction..MaxFraction) \ {0} :
          fractions = <<RationalFractionInit(n1, d1), RationalFractionInit(n2, d2)>>
    /\ IdleCombRun
    /\ IdleChain /\ IdleZip /\ IdlePrimes /\ IdleComb /\ IdleFlatten
    /\ IdleFlattenLoop /\ IdleTransaction /\ IdleSuppressor /\ IdleMock

InitFactorial ==
    /\ task = "factorial"
    /\ IdleFraction /\ IdleCombRun
    /\ IdleChain /\ IdleZip /\ IdlePrimes /\ IdleComb /\ IdleFlatten
    /\ IdleFlattenLoop /\ IdleTransaction /\ IdleSuppressor /\ IdleMock

InitCombRun ==
    /\ task = "combinations_run"
    /\ \E n \in 0..MaxCombLen, k \in -1..(MaxCombLen + 1) :
          comb_run = CombRunInit(InputSeq(0, n), k)
    /\ IdleFraction
    /\ IdleChain /\ IdleZip /\ IdlePrimes /\ IdleComb /\ IdleFlatten
    /\ IdleFlattenLoop /\ IdleTransaction /\ IdleSuppressor /\ IdleMock

InitTransaction ==
    /\ task = "transaction"
    /\ \E save_attrs \in SaveAttrs :
          saver = TransactionalObjectSaverInit(save_attrs)
    /\ IdleSuppressor /\ IdleMock /\ IdleFlattenLoop
    /\ IdleFraction /\ IdleCombRun
    /\ IdleChain /\ IdleZip /\ IdlePrimes /\ IdleComb /\ IdleFlatten

InitMock ==
    /\ task = "mock"
    /\ \E mock_attrs \in MockAttrs : mocker = MockManagerInit(mock_attrs)
    /\ IdleTransaction /\ IdleSuppressor /\ IdleFlattenLoop
    /\ IdleFraction /\ IdleCombRun
    /\ IdleChain /\ IdleZip /\ IdlePrimes /\ IdleComb /\ IdleFlatten

InitCombined ==
    /\ task = "combined"
    /\ \E save_attrs \in SaveAttrs :
          saver = TransactionalObjectSaverInit(save_attrs)
    /\ \E exceptions \in SUBSET {"ValueError", "ZeroDivisionError"} :
          suppressor = ErrorSuppressorInit(exceptions)
    /\ \E mock_attrs \in MockAttrs : mocker = MockManagerInit(mock_attrs)
    /\ IdleFraction /\ IdleCombRun
    /\ IdleChain /\ IdleZip /\ IdlePrimes /\ IdleComb /\ IdleFlatten
    /\ IdleFlattenLoop

Init ==
    /\ chain_log = NewLog
    /\ chain_gen_log = NewLog
    /\ zip_log = NewLog
    /\ zip_gen_log = NewLog
    /\ primes_log = NewLog
    /\ comb_log = NewLog
    /\ comb_run_log = NewLog
    /\ flat_log = NewLog
    /\ flat_gen_log = NewLog
    /\ flat_loop_log = NewLoopLog
    /\ obj = TestObjectInit
    /\ heap = TestObjectHeap
    /\ with_pc = "before"
    /\ with_log = NewWithLog
    /\ fractions_log = NoCall
    /\ memo = [i \in {} |-> 0]
    /\ memo_log = [n |-> 0, value |-> 0, calls |-> 0]
    /\ \/ InitChain
       \/ InitZip
       \/ InitPrimes
       \/ InitComb
       \/ InitCombRun
       \/ InitFlatten
       \/ InitFlattenLoop
       \/ InitTransaction
       \/ InitMock
       \/ InitCombined
       \/ InitFraction
       \/ InitFactorial

Next ==
    \/ ChainNext
    \/ ChainGenNext
    \/ ZipNext
    \/ ZipGenNext
    \/ PrimesNext
    \/ CombNext
    \/ CombRunStep
    \/ FlattenNext
    \/ FlattenGenNext
    \/ FlattenLoopStep
    \/ WithEnter
    \/ BodyAssign
    \/ BodyAppend
    \/ BodyRaise
    \/ BodyEnd
    \/ FractionAdd
    \/ FractionIAdd
    \/ FractionSub
    \/ FractionISub
    \/ FractionMul
    \/ FractionIMul
    \/ FractionTrueDiv
    \/ FractionITrueDiv
    \/ FactorialSumCall

Spec == Init /\ [][Next]_vars

\* A consumer that follows one FlattenIterator pass by pass and goes on
\* asking: the interpreter runs the next pass of a call that has begun, and
\* the consumer (a for loop, list()) makes its next request.
InitFlattenLoopRun == Init /\ task = "flatten_loop"

FlattenLoopRun ==
    InitFlattenLoopRun /\ [][FlattenLoopStep]_vars /\ WF_vars(FlattenLoopStep)

\* ------------------------------------------------- reference definitions
IsPrefix(a, b) == Len(a) <= Len(b) /\ a = SubSeq(b, 1, Len(a))

\* s_0 followed by s_1 ... followed by s_{N-1}.
RECURSIVE Concatenation(_)
Concatenation(seqs) ==
    IF Len(seqs) = 0 THEN <<>> ELSE Head(seqs) \o Concatenation(Tail(seqs))

\* The length of the shortest of one or more sequences.
ShortestLen(seqs) ==
    CHOOSE m \in {Len(seqs[i]) : i \in 1..Len(seqs)} :
        \A i \in 1..Len(seqs) : m <= Len(seqs[i])

\* ------------------------------------------------------------------ C1
\* C1: the values ChainSequences.__next__ returns are, at every moment, the
\* first so many elements of the concatenation of the inputs in input order,
\* and when it raises StopIteration it has returned the whole concatenation
\* (so empty sequences add nothing and are skipped within one call).
C1_ChainConcatenates ==
    task = "chain" =>
        /\ IsPrefix(chain_log.out, Concatenation(chain.sequences))
        /\ chain_log.stops > 0 =>
               chain_log.out = Concatenation(chain.sequences)

\* Exhausted after returning elements that sit behind two empty sequences.
C1_Witness ==
    /\ task = "chain"
    /\ Len(chain.sequences) = 3
    /\ Len(chain.sequences[1]) = 0
    /\ Len(chain.sequences[2]) = 0
    /\ chain_log.stops > 0
    /\ Len(chain_log.out) = MaxLen

\* ------------------------------------------------------------------ C2
\* C2: for N >= 1 the j-th tuple ZipSequences.__next__ returns is
\* (s_0[j], ..., s_{N-1}[j]), and the number of tuples returned before the
\* first StopIteration is the length of the shortest input.
C2_ZipPositional ==
    (task = "zip" /\ Len(zip.sequences) >= 1) =>
        /\ \A j \in 1..Len(zip_log.out) :
               /\ j <= ShortestLen(zip.sequences)
               /\ zip_log.out[j] =
                      [i \in 1..Len(zip.sequences) |-> zip.sequences[i][j]]
        /\ zip_log.stops > 0 =>
               Len(zip_log.out) = ShortestLen(zip.sequences)

\* Exhausted on inputs of different lengths after returning a tuple.
C2_Witness ==
    /\ task = "zip"
    /\ Len(zip.sequences) = 3
    /\ \E i, k \in 1..3 : Len(zip.sequences[i]) < Len(zip.sequences[k])
    /\ zip_log.stops > 0
    /\ Len(zip_log.out) >= 1

\* ------------------------------------------------------------------ C3
\* C3: built from zero sequences, neither ZipSequences nor the zip_sequences
\* generator ever returns a tuple: every request made is answered by
\* StopIteration.
C3_ZipOfNothingIsExhausted ==
    (task = "zip" /\ Len(zip.sequences) = 0) =>
        /\ zip_log.out = <<>>
        /\ zip_gen_log.out = <<>>

\* ------------------------------------------------------------------ C4
\* C4: once ZipSequences.__next__ has raised StopIteration, no later call
\* returns a tuple: every later call raises StopIteration again.
C4_ZipStaysExhausted ==
    [][(task = "zip" /\ zip_log.stops > 0 /\ zip_log' # zip_log) =>
           /\ zip_log'.out = zip_log.out
           /\ zip_log'.stops = zip_log.stops + 1]_vars

\* Asked again after exhaustion while a component still holds elements.
C4_Witness ==
    /\ task = "zip"
    /\ zip_log.stops >= 2
    /\ \E i \in 1..Len(zip.iterators) : ListIterHasNext(zip.iterators[i])

\* ------------------------------------------------------------------ C5
\* C5: once ChainSequences.__next__ has raised StopIteration, every later
\* call raises it again and returns no element; with no input sequences the
\* first call already raises.
C5_ChainStaysExhausted ==
    [][(task = "chain" /\ chain_log' # chain_log) =>
           /\ (chain_log.stops > 0 \/ Len(chain.sequences) = 0) =>
                  /\ chain_log'.out = chain_log.out
                  /\ chain_log'.stops = chain_log.stops + 1]_vars

\* Asked again after exhaustion of a chain that had returned elements.
C5_Witness ==
    /\ task = "chain"
    /\ chain_log.stops >= 2
    /\ Len(chain_log.out) >= 1

\* ------------------------------------------------------------------ C6
\* p is a prime number: p >= 2 has no divisor in [2, p).
IsPrime(p) == p >= 2 /\ \A d \in 2..(p - 1) : p % d # 0

\* C6: generate_primes(n) yields nothing when n <= 1; otherwise it yields 1
\* first and then primes below n only, in strictly ascending order, and when
\* it ends it has yielded every prime p with 2 <= p < n.
C6_PrimesBelow ==
    task = "primes" =>
        LET n == primes_gen.n
            out == primes_log.out
        IN  /\ n <= 1 => out = <<>>
            /\ Len(out) >= 1 => out[1] = 1
            /\ \A j \in 2..Len(out) :
                   /\ IsPrime(out[j])
                   /\ out[j] < n
                   /\ out[j - 1] < out[j]
            /\ (primes_log.stops > 0 /\ n > 1) =>
                   {out[j] : j \in 1..Len(out)} =
                       {1} \cup {p \in 2..(n - 1) : IsPrime(p)}

\* The generator has ended for a bound whose sieve strikes the multiples of
\* more than one prime, the last of them at the square root of the bound.
C6_Witness ==
    /\ task = "primes"
    /\ primes_gen.n = 25
    /\ primes_log.stops > 0
    /\ Len(primes_log.out) = 10

\* ------------------------------------------------------------------ C7
\* The index in the input of the element at place p of a yielded tuple.
IndexOf(tuple, p) == tuple[p][2]

\* Selection a comes before selection b in lexicographic order.
LexLess(a, b) ==
    \E p \in 1..Len(a) :
        /\ \A q \in 1..(p - 1) : IndexOf(a, q) = IndexOf(b, q)
        /\ IndexOf(a, p) < IndexOf(b, p)

\* The number of k-element subsets of an n-element set.
RECURSIVE Binomial(_, _)
Binomial(n, k) ==
    IF k = 0 THEN 1
    ELSE IF n = 0 THEN 0
    ELSE Binomial(n - 1, k - 1) + Binomial(n - 1, k)

\* C7: for 0 < k <= n every tuple generate_combinations yields holds the
\* elements at k strictly increasing indices of the sequence, the tuples come
\* in strictly increasing lexicographic order of those indices (so none comes
\* twice), and when the generator ends it has yielded C(n, k) of them.
C7_CombinationsLexicographic ==
    LET n == Len(comb_gen.sequence)
        k == comb_gen.k
        out == comb_log.out
    IN  (task = "combinations" /\ 0 < k /\ k <= n) =>
            /\ \A t \in 1..Len(out) :
                   /\ Len(out[t]) = k
                   /\ \A p \in 1..k :
                          /\ IndexOf(out[t], p) \in 0..(n - 1)
                          /\ out[t][p] = comb_gen.sequence[IndexOf(out[t], p) + 1]
                          /\ p > 1 => IndexOf(out[t], p - 1) < IndexOf(out[t], p)
            /\ \A t \in 2..Len(out) : LexLess(out[t - 1], out[t])
            /\ comb_log.stops > 0 => Len(out) = Binomial(n, k)

\* All six pairs of a sequence of four have been yielded.
C7_Witness ==
    /\ task = "combinations"
    /\ Len(comb_gen.sequence) = 4
    /\ comb_gen.k = 2
    /\ comb_log.stops > 0
    /\ Len(comb_log.out) = 6

\* ------------------------------------------------------------------ C8
\* C8: for k <= 0 or k > n generate_combinations never yields a tuple: the
\* first request ends the generator, which has run no call of _combine.
C8_CombinationsEmptyOutOfRange ==
    LET n == Len(comb_gen.sequence)
        k == comb_gen.k
    IN  (task = "combinations" /\ (k <= 0 \/ k > n)) =>
            /\ comb_log.out = <<>>
            /\ comb_gen.frames = <<>>
            /\ comb_gen.pc \in {"created", "done"}
            /\ comb_gen.pc = "done" <=> comb_log.stops > 0

\* Asked for the combinations of length 0 of a non-empty sequence, and ended.
C8_Witness ==
    /\ task = "combinations"
    /\ comb_gen.k = 0
    /\ Len(comb_gen.sequence) = 3
    /\ comb_log.stops > 0

\* ------------------------------------------------------------------ C9
\* The element of the nested list `items` that the path of indices leads to
\* is a leaf.
RECURSIVE IsLeafAt(_, _)
IsLeafAt(items, path) ==
    /\ Len(path) >= 1
    /\ Head(path) < Len(items)
    /\ LET element == items[Head(path) + 1]
       IN  IF Len(path) = 1 THEN ~element.isList
           ELSE element.isList /\ IsLeafAt(element.items, Tail(path))

\* Leaf a comes before leaf b in depth-first, left-to-right order: where the
\* two paths part, a takes the smaller index.
PathBefore(a, b) ==
    \E p \in 1..Len(a) :
        /\ p <= Len(b)
        /\ \A q \in 1..(p - 1) : a[q] = b[q]
        /\ a[p] < b[p]

\* The number of leaves of a nested list.
RECURSIVE LeafCount(_)
LeafCount(items) ==
    IF Len(items) = 0 THEN 0
    ELSE (IF Head(items).isList THEN LeafCount(Head(items).items) ELSE 1)
         + LeafCount(Tail(items))

\* C9: FlattenIterator.__next__ returns leaves of the nested list only, each
\* later in depth-first, left-to-right order than the one before (so none
\* twice), and when it raises StopIteration it has returned all of them.
C9_FlattenPreOrder ==
    task = "flatten" =>
        /\ \A j \in 1..Len(flat_log.out) :
               /\ IsLeafAt(flat.nested_list, flat_log.out[j])
               /\ j > 1 => PathBefore(flat_log.out[j - 1], flat_log.out[j])
        /\ flat_log.stops > 0 =>
               Len(flat_log.out) = LeafCount(flat.nested_list)

\* Exhausted on a list with a list in a list, having returned a leaf found
\* after the inner lists were left.
C9_Witness ==
    /\ task = "flatten"
    /\ flat_log.stops > 0
    /\ \E j \in 1..Len(flat_log.out) : Len(flat_log.out[j]) = 3
    /\ Len(flat_log.out) >= 2
    /\ Len(flat_log.out[Len(flat_log.out)]) = 1

\* ------------------------------------------------------------------ C10
\* C10: on the same nested list FlattenIterator and
\* flatten_iterator_generator give the same leaves in the same order: what
\* the one has given so far is the beginning of what the other has given, or
\* the other way round, and neither gives a leaf more than the other had
\* given when it signalled exhaustion.
C10_FlattenFormsAgree ==
    task = "flatten" =>
        /\ \/ IsPrefix(flat_log.out, flat_gen_log.out)
           \/ IsPrefix(flat_gen_log.out, flat_log.out)
        /\ flat_log.stops > 0 => IsPrefix(flat_gen_log.out, flat_log.out)
        /\ flat_gen_log.stops > 0 => IsPrefix(flat_log.out, flat_gen_log.out)

\* Both forms exhausted on a list that holds a leaf inside a nested list.
C10_Witness ==
    /\ task = "flatten"
    /\ flat_log.stops > 0
    /\ flat_gen_log.stops > 0
    /\ \E j \in 1..Len(flat_gen_log.out) : Len(flat_gen_log.out[j]) >= 2
    /\ Len(flat_gen_log.out) >= 2

\* ------------------------------------------------------------------ C11
\* C11: a call of FlattenIterator.__next__ raises StopIteration exactly when
\* every leaf of the nested list has been returned; the call that raises
\* leaves the stack empty and returns nothing, so every later call raises
\* again, and the first call raises when the nested list has no leaf at all.
C11_FlattenExhaustion ==
    [][(task = "flatten" /\ flat_log' # flat_log) =>
           LET raised == flat_log'.stops = flat_log.stops + 1
           IN  /\ raised <=> Len(flat_log.out) = LeafCount(flat.nested_list)
               /\ raised => /\ flat'.stack = <<>>
                            /\ flat_log'.out = flat_log.out]_vars

\* Asked twice for an element of a list that holds empty lists only.
C11_Witness ==
    /\ task = "flatten"
    /\ Len(flat.nested_list) = 2
    /\ LeafCount(flat.nested_list) = 0
    /\ flat_log.stops >= 2
    /\ flat.stack = <<>>

\* ------------------------------------------------------------------ C12
\* C12: on the same input sequences the ChainSequences object and the
\* chain_sequences generator give the same elements in the same order: what
\* the one has given so far is the beginning of what the other has given, or
\* the other way round, and neither gives an element more than the other had
\* given when it signalled exhaustion.
C12_ChainFormsAgree ==
    task = "chain" =>
        /\ \/ IsPrefix(chain_log.out, chain_gen_log.out)
           \/ IsPrefix(chain_gen_log.out, chain_log.out)
        /\ chain_log.stops > 0 => IsPrefix(chain_gen_log.out, chain_log.out)
        /\ chain_gen_log.stops > 0 => IsPrefix(chain_log.out, chain_gen_log.out)

\* Both forms exhausted on three sequences, the middle one empty, the others
\* not.
C12_Witness ==
    /\ task = "chain"
    /\ Len(chain.sequences) = 3
    /\ Len(chain.sequences[1]) > 0
    /\ Len(chain.sequences[2]) = 0
    /\ Len(chain.sequences[3]) > 0
    /\ chain_log.stops > 0
    /\ chain_gen_log.stops > 0

\* ------------------------------------------------------------------ C13
\* C13: on the same input sequences the ZipSequences object and the
\* zip_sequences generator give the same tuples in the same order: what the
\* one has given so far is the beginning of what the other has given, or the
\* other way round, and neither gives a tuple more than the other had given
\* when it signalled exhaustion.
C13_ZipFormsAgree ==
    task = "zip" =>
        /\ \/ IsPrefix(zip_log.out, zip_gen_log.out)
           \/ IsPrefix(zip_gen_log.out, zip_log.out)
        /\ zip_log.stops > 0 => IsPrefix(zip_gen_log.out, zip_log.out)
        /\ zip_gen_log.stops > 0 => IsPrefix(zip_log.out, zip_gen_log.out)

\* Both forms exhausted, after two tuples, on sequences of different lengths.
C13_Witness ==
    /\ task = "zip"
    /\ Len(zip.sequences) >= 2
    /\ \E i, k \in 1..Len(zip.sequences) :
           Len(zip.sequences[i]) < Len(zip.sequences[k])
    /\ zip_log.stops > 0
    /\ zip_gen_log.stops > 0
    /\ Len(zip_log.out) = 2
    /\ Len(zip_gen_log.out) = 2

\* ------------------------------------------------------------------ C15
\* The marker array is the finished sieve for bound n: it has n markers and
\* marks exactly the primes.
CompleteSieve(is_prime, n) ==
    /\ Len(is_prime) = n
    /\ \A j \in 0..(n - 1) : is_prime[j + 1] = IsPrime(j)

\* One request to generate_primes only scans forward: what it yields is the
\* first marked index behind the last one yielded, and when it yields
\* nothing no index behind the last one yielded is marked.
PrimesScansForward ==
    LET is_prime == primes_gen.is_prime
        last == primes_gen.i
    IN  IF Len(primes_log'.out) > Len(primes_log.out)
        THEN LET v == primes_log'.out[Len(primes_log'.out)]
             IN  /\ v > last
                 /\ is_prime[v + 1]
                 /\ \A j \in (last + 1)..(v - 1) : ~is_prime[j + 1]
        ELSE \A j \in (last + 1)..(primes_gen.n - 1) : ~is_prime[j + 1]

\* For n > 2: once m elements have been yielded the marker array is the
\* finished sieve, and a request made after m elements were yielded changes
\* no marker and only scans forward.
SieveReadyFromYield(m) ==
    (task = "primes" /\ primes_gen.n > 2 /\ primes_log' # primes_log) =>
        /\ Len(primes_log'.out) >= m =>
               CompleteSieve(primes_gen'.is_prime, primes_gen.n)
        /\ Len(primes_log.out) >= m =>
               /\ primes_gen'.is_prime = primes_gen.is_prime
               /\ PrimesScansForward

\* C15 as claimed: for n > 2 the complete sieve marker array is computed
\* before generate_primes yields its first element, no marker is modified
\* after the first element has been yielded, and each later request only
\* scans forward to the next index that is not struck.
C15_SieveBeforeFirstYield == [][SieveReadyFromYield(1)]_vars

\* C15 as amended: for n > 2 the first element (1) is yielded before any
\* marker exists; the complete sieve marker array is computed by the second
\* request, before the second element is yielded, no marker is modified
\* after that, and each later request only scans forward to the next index
\* that is not struck.
C15_SieveBeforeSecondYield == [][SieveReadyFromYield(2)]_vars

\* The generator has gone on scanning the finished sieve of a bound whose
\* sieve strikes multiples of 2, 3 and 5.
C15_Witness ==
    /\ task = "primes"
    /\ primes_gen.n = 26
    /\ primes_gen.pc = "yield_i"
    /\ Len(primes_log.out) >= 4

\* ------------------------------------------------------------------ C16
\* C16: no advance of ChainSequences, chain_sequences, ZipSequences,
\* zip_sequences, generate_combinations, FlattenIterator or
\* flatten_iterator_generator changes an input: the sequences, the sequence
\* and the nested list an adapter was built on, and the lists its cursors
\* and frames read, are after every call what they were before it (the
\* combination generator appends to and pops from its list `current` only).
C16_InputsNeverWritten ==
    [][/\ chain'.sequences = chain.sequences
       /\ chain_gen'.sequences = chain_gen.sequences
       /\ zip'.sequences = zip.sequences
       /\ \A i \in 1..Len(zip.sequences) :
              zip'.iterators[i].list = zip.sequences[i]
       /\ Len(zip_gen'.iterators) = Len(zip_gen.iterators)
       /\ \A i \in 1..Len(zip_gen.iterators) :
              zip_gen'.iterators[i].list = zip_gen.iterators[i].list
       /\ comb_gen'.sequence = comb_gen.sequence
       /\ flat'.nested_list = flat.nested_list
       /\ Len(flat'.stack) >= 1 => flat'.stack[1][1] = flat.nested_list
       /\ flat_gen'.nested_list = flat_gen.nested_list
       /\ Len(flat_gen'.frames) >= 1 =>
              flat_gen'.frames[1].list = flat_gen.nested_list]_vars

\* The combination generator has appended to and popped from its partial
\* selection: it is suspended at its second tuple of three elements.
C16_Witness ==
    /\ task = "combinations"
    /\ Len(comb_gen.sequence) = 4
    /\ comb_gen.k = 3
    /\ Len(comb_gen.current) = 3
    /\ Len(comb_log.out) = 2

\* ------------------------------------------------------------------ C17
\* The elements of the first m sequences, in order.
RECURSIVE FirstSequences(_, _)
FirstSequences(seqs, m) ==
    IF m = 0 THEN <<>> ELSE FirstSequences(seqs, m - 1) \o seqs[m]

\* What ChainSequences has taken from its cursors: all of every sequence in
\* front of the current one, and of the current one what lies in front of
\* the position of current_iterator.
ChainConsumed(self) ==
    IF self.current_sequence_index < Len(self.sequences)
    THEN FirstSequences(self.sequences, self.current_sequence_index)
         \o SubSeq(self.current_iterator.list, 1, self.current_iterator.pos)
    ELSE FirstSequences(self.sequences, Len(self.sequences))

\* C17: after every call ChainSequences has taken from its cursors exactly
\* the elements it has returned, its cursor is a cursor over the sequence
\* current_sequence_index names, and a call moves on to a later sequence only
\* when the cursor it started with had no element left.
C17_ChainNoReadAhead ==
    [][task = "chain" =>
           /\ ChainConsumed(chain') = chain_log'.out
           /\ chain'.current_sequence_index < Len(chain.sequences) =>
                  chain'.current_iterator.list =
                      chain.sequences[chain'.current_sequence_index + 1]
           /\ chain'.current_sequence_index # chain.current_sequence_index =>
                  ~ListIterHasNext(chain.current_iterator)]_vars

\* The last element of the first sequence has been returned, a second
\* sequence with elements is waiting, and its cursor has not been opened.
C17_Witness ==
    /\ task = "chain"
    /\ Len(chain.sequences) >= 2
    /\ Len(chain.sequences[2]) > 0
    /\ chain.current_sequence_index = 0
    /\ Len(chain_log.out) = MaxLen
    /\ ~ListIterHasNext(chain.current_iterator)

\* ------------------------------------------------------------------ C18
\* The list of the nested list `items` that the path of indices leads to;
\* the empty path leads to `items` itself.
RECURSIVE ContainerAt(_, _)
ContainerAt(items, path) ==
    IF Len(path) = 0 THEN items
    ELSE ContainerAt(items[Head(path) + 1].items, Tail(path))

\* C18: when FlattenIterator.__next__ returns a leaf, the stack holds
\* exactly the lists on the way to that leaf, each with the stored index one
\* past the element the way goes through: the top frame is the leaf's own
\* container with index = leaf index + 1, and no frame has been pushed,
\* popped or moved for anything behind the leaf.
C18_FlattenNoReadAhead ==
    [][(task = "flatten" /\ flat_log'.out # flat_log.out) =>
           LET leaf == flat_log'.out[Len(flat_log'.out)]
           IN  /\ Len(flat'.stack) = Len(leaf)
               /\ \A d \in 1..Len(leaf) :
                      flat'.stack[d] =
                          <<ContainerAt(flat.nested_list, SubSeq(leaf, 1, d - 1)),
                            leaf[d] + 1>>]_vars

\* The last leaf of an inner list has been returned while the outer list
\* still has an element behind that inner list: the used-up inner list is
\* still on top of the stack.
C18_Witness ==
    /\ task = "flatten"
    /\ flat_log.stops = 0
    /\ Len(flat_log.out) >= 1
    /\ Len(flat.stack) = 2
    /\ flat.stack[2][2] = Len(flat.stack[2][1])
    /\ flat.stack[1][2] < Len(flat.stack[1][1])

\* ------------------------------------------------------------------ C20
\* The state of an attribute: the int it holds, or the elements of the list
\* it refers to.
AttrState(value, h) ==
    [isList |-> value.isList,
     int |-> value.int,
     elements |-> IF value.isList THEN h[value.ref] ELSE <<>>]

\* C20: when the body of `with TransactionalObjectSaver(obj, attrs)` raises,
\* then after __exit__ every saved attribute has the state it had at
\* __enter__, the elements of a list the body appended to included, and the
\* exception propagates; when the body does not raise, __exit__ changes
\* nothing of what the body left.
C20_RollbackOnError ==
    [][(task = "transaction" /\ with_pc = "body" /\ with_pc' = "after") =>
           IF with_log'.raised
           THEN /\ \A attr \in DOMAIN saver.original_state :
                       AttrState(obj'[attr], heap')
                           = AttrState(with_log.entry_obj[attr], with_log.entry_heap)
                /\ with_log'.propagated
           ELSE /\ obj' = obj
                /\ heap' = heap]_vars

\* ------------------------------------------------------------------ C21
\* C21: in the with statement TransactionalObjectSaver > ErrorSuppressor >
\* mock, when the body raises an exception of a type the ErrorSuppressor
\* suppresses, then after the with statement every attribute the
\* TransactionalObjectSaver saved holds what it held at entry.
C21_RollbackWhenSuppressed ==
    [][(/\ task = "combined"
        /\ with_pc = "body"
        /\ with_pc' = "after"
        /\ with_log'.raised
        /\ ErrorSuppressorExit(suppressor, with_log'.exc_type)) =>
           \A attr \in DOMAIN saver.original_state :
               /\ attr \in DOMAIN obj'
               /\ obj'[attr] = with_log.entry_obj[attr]]_vars

\* ------------------------------------------------------------------ C22
\* C22: after a `with mock(obj, **attrs)` block exits, normally or by an
\* exception, every mocked attribute that existed before entry has its
\* pre-entry state again and every mocked attribute that did not exist
\* before entry is gone; neither the __enter__ nor the __exit__ call touches
\* an attribute that is not named in the mock call, or any list.
C22_MockRestores ==
    [][task = "mock" =>
           /\ (with_pc = "before" /\ with_pc' = "body") =>
                  /\ DOMAIN obj' = DOMAIN obj \cup DOMAIN mocker.mock_attrs
                  /\ \A attr \in DOMAIN obj \ DOMAIN mocker.mock_attrs :
                         obj'[attr] = obj[attr]
                  /\ heap' = heap
           /\ (with_pc = "body" /\ with_pc' = "after") =>
                  /\ \A attr \in DOMAIN mocker.mock_attrs :
                         IF attr \in DOMAIN with_log.entry_obj
                         THEN /\ attr \in DOMAIN obj'
                              /\ AttrState(obj'[attr], heap')
                                     = AttrState(with_log.entry_obj[attr],
                                                 with_log.entry_heap)
                         ELSE attr \notin DOMAIN obj'
                  /\ \A attr \in DOMAIN obj \ DOMAIN mocker.mock_attrs :
                         /\ attr \in DOMAIN obj'
                         /\ obj'[attr] = obj[attr]
                  /\ heap' = heap]_vars

\* A mock of value and of the new attribute new_attr has been left by an
\* exception after the body had assigned to the mocked value: value is 0
\* again and new_attr is gone.
C22_Witness ==
    /\ task = "mock"
    /\ with_pc = "after"
    /\ with_log.raised
    /\ with_log.steps >= 1
    /\ DOMAIN mocker.mock_attrs = {"value", "new_attr"}
    /\ DOMAIN mocker.original_attrs = {"value"}
    /\ obj.value = IntValue(0)
    /\ "new_attr" \notin DOMAIN obj

\* ------------------------------------------------------------------ C23
\* C23: each pass through the loop of FlattenIterator.__next__ does exactly
\* one of three things to the top frame (c, i): when i >= len(c) it pops the
\* frame and changes nothing else; otherwise it replaces the frame by
\* (c, i + 1) and then either pushes (c[i], 0) without returning, when c[i]
\* is a list, or returns c[i], when c[i] is a leaf.
C23_FlattenLoopPass ==
    [][(task = "flatten_loop" /\ flat_loop_log'.iterations # flat_loop_log.iterations) =>
           LET stack == flat_loop.self.stack
               top == Len(stack)
               c == stack[top][1]
               i == stack[top][2]
               returns == /\ flat_loop'.pc = "idle"
                          /\ Len(flat_loop_log'.out) = Len(flat_loop_log.out) + 1
               goes_on == /\ flat_loop'.pc = "while"
                          /\ flat_loop_log'.out = flat_loop_log.out
           IN  /\ top >= 1
               /\ IF i >= Len(c)
                  THEN /\ flat_loop'.self.stack = SubSeq(stack, 1, top - 1)
                       /\ goes_on
                  ELSE IF c[i + 1].isList
                  THEN /\ flat_loop'.self.stack =
                              Append([stack EXCEPT ![top] = <<c, i + 1>>],
                                     <<c[i + 1].items, 0>>)
                       /\ goes_on
                  ELSE /\ flat_loop'.self.stack = [stack EXCEPT ![top] = <<c, i + 1>>]
                       /\ returns
                       /\ flat_loop_log'.out[Len(flat_loop_log'.out)] = c[i + 1].val]_vars

\* Inside one call the loop has pushed a list, used it up and popped it, and
\* stands in front of a further element of the list below.
C23_Witness ==
    /\ task = "flatten_loop"
    /\ flat_loop.pc = "while"
    /\ Len(flat_loop.self.stack) = 1
    /\ flat_loop.self.stack[1][2] >= 1
    /\ flat_loop.self.stack[1][2] < Len(flat_loop.self.stack[1][1])
    /\ flat_loop_log.iterations >= 2

\* ------------------------------------------------------------------ C24
\* Two fractions have the same rational value (denominators are not 0).
SameValue(x, y) == x.numerator * y.denominator = y.numerator * x.denominator

\* What the pure operator that belongs to a method returns.
PureResult(method, self, other) ==
    CASE method \in {"__add__", "__iadd__"} -> RationalFractionAdd(self, other)
      [] method \in {"__sub__", "__isub__"} -> RationalFractionSub(self, other)
      [] method \in {"__mul__", "__imul__"} -> RationalFractionMul(self, other)
      [] OTHER -> RationalFractionTrueDiv(self, other)

\* C24: for fractions a and b with b not 0, an in-place operator leaves a
\* with the rational value the pure operator of the same kind returns, also
\* when b is the very object a; no operator raises, a pure operator changes
\* neither object, and an in-place operator does not change b when b is
\* another object than a.
C24_InPlaceMatchesPure ==
    [][(/\ task = "fraction"
        /\ fractions_log.method = "None"
        /\ fractions_log'.method # "None"
        /\ fractions[fractions_log'.other].numerator # 0) =>
           LET method == fractions_log'.method
               other == fractions_log'.other
               pure == PureResult(method, fractions[1], fractions[other])
           IN  /\ ~fractions_log'.raised
               /\ ~pure.raised
               /\ SameValue(fractions'[1], pure.value)
                      \/ method \in {"__add__", "__sub__", "__mul__", "__truediv__"}
               /\ method \in {"__add__", "__sub__", "__mul__", "__truediv__"} =>
                      /\ fractions' = fractions
                      /\ fractions_log'.value = pure.value
               /\ other # 1 => fractions'[other] = fractions[other]]_vars

\* ------------------------------------------------------------------ C25
RECURSIVE Factorial(_)
Factorial(n) == IF n = 0 THEN 1 ELSE n * Factorial(n - 1)

\* 1! + 2! + ... + n!
RECURSIVE SumOfFactorials(_)
SumOfFactorials(n) ==
    IF n = 0 THEN 0 ELSE SumOfFactorials(n - 1) + Factorial(n)

\* C25: for every n >= 1, whatever calls were made before, factorial_sum(n)
\* returns 1! + 2! + ... + n!.
C25_FactorialSum ==
    (task = "factorial" /\ memo_log.calls >= 1 /\ memo_log.n >= 1) =>
        memo_log.value = SumOfFactorials(memo_log.n)

\* ------------------------------------------------------------------ C26
\* The nesting depth of a nested list: 1 for a list of leaves.
RECURSIVE NestingDepth(_)
NestingDepth(items) ==
    IF Len(items) = 0 THEN 1
    ELSE LET here == IF Head(items).isList
                     THEN 1 + NestingDepth(Head(items).items)
                     ELSE 1
             rest == NestingDepth(Tail(items))
         IN  IF here > rest THEN here ELSE rest

\* The stack of a FlattenIterator is well formed.
StackWellFormed(self) ==
    /\ \A d \in 1..Len(self.stack) :
           /\ self.stack[d][2] >= 0
           /\ self.stack[d][2] <= Len(self.stack[d][1])
    /\ Len(self.stack) >= 1 => self.stack[1][1] = self.nested_list
    /\ \A d \in 1..(Len(self.stack) - 1) :
           LET c == self.stack[d][1]
               i == self.stack[d][2]
           IN  /\ i >= 1
               /\ c[i].isList
               /\ self.stack[d + 1][1] = c[i].items
    /\ Len(self.stack) <= NestingDepth(self.nested_list)

\* C26: in every reachable state of a FlattenIterator, between calls and
\* between the passes of the loop inside a call, each frame (c, i) has
\* 0 <= i <= len(c), the bottom frame holds the input list, the container of
\* every frame above is the element at index (i - 1) of the frame below it,
\* and the stack is no deeper than the input is nested.
C26_FlattenStackInvariant ==
    /\ task = "flatten" => StackWellFormed(flat)
    /\ task = "flatten_loop" => StackWellFormed(flat_loop.self)

\* A leaf three lists deep has been returned: the stack holds three frames.
C26_Witness ==
    /\ task = "flatten"
    /\ Len(flat.stack) = 3
    /\ flat.stack[3][2] = 1
    /\ Len(flat_log.out) >= 1

\* ------------------------------------------------------------------ C27
\* C27 as claimed: every element ZipSequences has consumed from a component
\* cursor is in a returned tuple, that is, every component cursor stands
\* behind as many elements as tuples were returned.
C27_ZipConsumesOnlyReturned ==
    task = "zip" =>
        \A i \in 1..Len(zip.iterators) :
            zip.iterators[i].pos = Len(zip_log.out)

\* The first component whose cursor has no element left; 0 when there is none.
RECURSIVE FirstExhausted(_, _)
FirstExhausted(iterators, i) ==
    IF i > Len(iterators) THEN 0
    ELSE IF ~ListIterHasNext(iterators[i]) THEN i
    ELSE FirstExhausted(iterators, i + 1)

\* C27 (amended): a call of ZipSequences.__next__ that returns a tuple
\* consumes exactly one element of every component, the elements of the
\* tuple; a call that raises StopIteration, the first one and every later
\* one, consumes and drops one element of every component in front of the
\* first exhausted one and none of the others.
C27_ZipDropsBeforeExhausted ==
    [][(task = "zip" /\ zip_log' # zip_log) =>
           LET e == FirstExhausted(zip.iterators, 1)
               consumed(i) == zip'.iterators[i].pos - zip.iterators[i].pos
           IN  IF zip_log'.stops = zip_log.stops
               THEN /\ e = 0
                    /\ \A i \in 1..Len(zip.iterators) :
                           /\ consumed(i) = 1
                           /\ zip_log'.out[Len(zip_log'.out)][i] =
                                  ListIterValue(zip.iterators[i])
               ELSE /\ e >= 1
                    /\ \A i \in 1..Len(zip.iterators) :
                           consumed(i) = IF i < e THEN 1 ELSE 0]_vars

\* Two requests were answered by StopIteration and each of them has taken
\* one more element of the first sequence, which is in no tuple.
C27_Witness ==
    /\ task = "zip"
    /\ zip_log.stops = 2
    /\ Len(zip.iterators) >= 2
    /\ zip.iterators[1].pos = Len(zip_log.out) + 2

\* ------------------------------------------------------------------ C28
\* C28 as claimed: a call of ChainSequences.__next__ on an adapter that has
\* already raised StopIteration leaves current_sequence_index and
\* current_iterator as they were, and current_sequence_index never exceeds
\* the number of sequences.
C28_ExhaustedChainUnchanged ==
    [][(task = "chain" /\ chain_log.stops >= 1 /\ chain_log' # chain_log) =>
           /\ chain'.current_sequence_index = chain.current_sequence_index
           /\ chain'.current_iterator = chain.current_iterator
           /\ chain'.current_sequence_index <= Len(chain.sequences)]_vars

\* C28 (amended): a call of ChainSequences.__next__ on an adapter that has
\* already raised StopIteration raises StopIteration again, returns nothing,
\* leaves sequences and current_iterator as they were and adds one to
\* current_sequence_index, which from then on exceeds the number of
\* sequences.
C28_ExhaustedChainCountsOn ==
    [][(task = "chain" /\ chain_log.stops >= 1 /\ chain_log' # chain_log) =>
           /\ chain_log'.stops = chain_log.stops + 1
           /\ chain_log'.out = chain_log.out
           /\ chain'.sequences = chain.sequences
           /\ chain'.current_iterator = chain.current_iterator
           /\ chain'.current_sequence_index = chain.current_sequence_index + 1
           /\ chain'.current_sequence_index > Len(chain.sequences)]_vars

\* Three requests were answered by StopIteration: current_sequence_index is
\* two past the number of sequences.
C28_Witness ==
    /\ task = "chain"
    /\ Len(chain.sequences) >= 1
    /\ Len(chain_log.out) >= 1
    /\ chain_log.stops = 3
    /\ chain.current_sequence_index = Len(chain.sequences) + 2

\* ------------------------------------------------------------------ C29
\* The elements of a selection sit at strictly increasing indices of the
\* sequence.
IncreasingIndices(selection) ==
    \A p \in 1..(Len(selection) - 1) :
        IndexOf(selection, p) < IndexOf(selection, p + 1)

\* C29: after every statement of generate_combinations the shared partial
\* selection holds elements at strictly increasing indices and at most k of
\* them, exactly k when the statement was the yield; a call of _combine that
\* returns leaves the partial selection as it found it, and the selection is
\* empty when the enumeration ends; the tuples already yielded stay as they
\* were yielded.
C29_CombinationsBacktracking ==
    [][task = "combinations_run" =>
           /\ IncreasingIndices(comb_run'.current)
           /\ Len(comb_run'.current) <= comb_run.k \/ comb_run'.pc = "done"
           /\ comb_run'.pc = "suspended" =>
                  /\ Len(comb_run'.current) = comb_run.k
                  /\ comb_run_log'.out = Append(comb_run_log.out, comb_run'.current)
           /\ Len(comb_run'.frames) < Len(comb_run.frames) =>
                  LET returned == comb_run.frames[Len(comb_run.frames)]
                  IN  \* the caller's pop belongs to the caller, which gave
                      \* the call the selection with one element more
                      /\ comb_run.current = returned.entry
                      /\ Len(comb_run'.frames) >= 1 =>
                             comb_run'.current =
                                 comb_run'.frames[Len(comb_run'.frames)].entry
           /\ comb_run'.pc = "done" => comb_run'.current = <<>>
           /\ comb_run'.pc # "suspended" => comb_run_log'.out = comb_run_log.out]_vars

\* A tuple has been yielded, the call that yielded it and its caller have
\* returned, and the enumeration stands at the head of a loop with a
\* shorter selection.
C29_Witness ==
    /\ task = "combinations_run"
    /\ comb_run.k = 3
    /\ Len(comb_run.sequence) = 4
    /\ Len(comb_run_log.out) = 2
    /\ comb_run.pc = "running"
    /\ Len(comb_run.current) = 1
    /\ Len(comb_run.frames) = 2

\* ------------------------------------------------------------------ C30
\* The number of elements of a nested list, those of its inner lists
\* included, and the number of its lists, itself included.
RECURSIVE ElementCount(_)
ElementCount(items) ==
    IF Len(items) = 0 THEN 0
    ELSE 1 + (IF Head(items).isList THEN ElementCount(Head(items).items) ELSE 0)
           + ElementCount(Tail(items))

RECURSIVE InnerListCount(_)
InnerListCount(items) ==
    IF Len(items) = 0 THEN 0
    ELSE (IF Head(items).isList THEN 1 + InnerListCount(Head(items).items) ELSE 0)
         + InnerListCount(Tail(items))

ListCount(items) == 1 + InnerListCount(items)

\* C30: every call of FlattenIterator.__next__ comes to an end, by returning
\* a leaf or by raising StopIteration; StopIteration is reached after
\* finitely many calls; and the passes through the loop, over the whole
\* run, are no more than the elements plus twice the lists of the input.
C30_FlattenTerminates ==
    /\ [](flat_loop_log.iterations
              <= ElementCount(flat_loop.self.nested_list)
                 + 2 * ListCount(flat_loop.self.nested_list))
    /\ (flat_loop.pc = "while") ~> (flat_loop.pc = "idle")
    /\ <>(flat_loop_log.stops >= 1)

\* StopIteration has been raised after one pass for each of the five
\* elements and one for each of the three lists of the input.
C30_Witness ==
    /\ flat_loop_log.stops = 1
    /\ ListCount(flat_loop.self.nested_list) = 3
    /\ ElementCount(flat_loop.self.nested_list) = 5
    /\ flat_loop_log.iterations = 8
    /\ Len(flat_loop_log.out) = 3
====
